---- MODULE Spec2Model ----
(***************************************************************************)
(* Model of the workshop's metric scripts:                                 *)
(*   scripts/analyze-performance.py                    (PerformanceAnalyzer)*)
(*   scripts/module06-performance-regression-detector.py (RegressionDetector)*)
(*                                                                         *)
(* Percentages are kept as exact fractions [num, den] with den > 0; the    *)
(* code compares them against integer cut points only, so a comparison     *)
(* x > k is num > k * den.                                                 *)
(***************************************************************************)
EXTENDS Integers, Sequences, FiniteSets, TLC

\* ------------------------------------------------------------------ bounds
\* Total number of metric files on disk below the metrics directory.
MaxFiles == 2

\* ------------------------------------------------------------- directories
BaselineDir == "collected-metrics"
TunedDir == "collected-metrics-tuned"
VmiDir == "collected-metrics-vmi"
Dirs == {BaselineDir, TunedDir, VmiDir}
\* A directory of the disk: absent, or present with its files in glob order.
Missing == [exists |-> FALSE, files |-> << >>]
Present(files) == [exists |-> TRUE, files |-> files]

\* Line 39: the name the VMI directory is hidden under.
HiddenDir == ".collected-metrics-vmi-hidden"
AllDirs == Dirs \cup {HiddenDir}

\* ------------------------------------------------------- JSON file bodies
\* A parsed JSON document: a list of objects, one object, or text that
\* json.load rejects.  A file on disk is [kind, body, mtime]; kind is the
\* part of the file name the glob patterns look at, body names the document.
Invalid == [shape |-> "invalid"]
JList(items) == [shape |-> "list", items |-> items]
JDict(fields) == [shape |-> "dict", fields |-> fields]

Item(name, fields) == [quantileName |-> name, fields |-> fields]

Body(id) ==
  CASE id = "bad" -> Invalid
    [] id = "base" ->
         JList(<< Item("Ready", [P50 |-> 20, P95 |-> 20, P99 |-> 20, avg |-> 20, max |-> 20]),
                  Item("PodScheduled", [P50 |-> 20, P95 |-> 20, P99 |-> 20, avg |-> 20, max |-> 20]),
                  Item("ContainersReady", [P50 |-> 20, P95 |-> 20, P99 |-> 20, avg |-> 20, max |-> 20]) >>)
    [] id = "tuned" ->
         JList(<< Item("Ready", [P50 |-> 16, P95 |-> 19, P99 |-> 21, avg |-> 10, max |-> 24]),
                  Item("", [P50 |-> 1, P95 |-> 1, P99 |-> 1, avg |-> 1, max |-> 1]),
                  Item("PodScheduled", [P50 |-> 20, P95 |-> 15, P99 |-> 20, avg |-> 30, max |-> 30]),
                  Item("Initialized", [P50 |-> 20, P95 |-> 30, P99 |-> 0, avg |-> 25, max |-> 30]) >>)
    [] id = "specB" ->
         JList(<< Item("Ready", [P99 |-> 10000, avg |-> 5000]) >>)
    [] id = "specC" ->
         JList(<< Item("Ready", [P99 |-> 5000, avg |-> 2500]) >>)
    [] id = "zeroB" ->
         JList(<< Item("Ready", [P99 |-> 0]),
                  Item("PodScheduled", [P50 |-> 20, P95 |-> 20, P99 |-> 20, avg |-> 0, max |-> 20]) >>)
    [] id = "vmi" ->
         JList(<< Item("VMIRunning", [P50 |-> 20, P95 |-> 20, P99 |-> 20, avg |-> 20, max |-> 20]) >>)
    [] id = "vmiB" ->
         JList(<< Item("VMIScheduled", [P50 |-> 4000, P95 |-> 4500, P99 |-> 5000, avg |-> 4000, max |-> 6000]),
                  Item("VMIRunning", [P50 |-> 20000, P95 |-> 40000, P99 |-> 60000, avg |-> 30000, max |-> 70000]) >>)
    [] id = "dictA" -> JDict([P50 |-> 20, P95 |-> 20, P99 |-> 20])
    [] id = "dictB" -> JDict([p50 |-> 21, p95 |-> 22, p99 |-> 23])
    [] id = "dictZ" -> JDict([P95 |-> 20, P99 |-> 10])
    [] OTHER -> Invalid

File(kind, id, mtime) == [kind |-> kind, body |-> id, mtime |-> mtime]

\* item.get(key, 0)
Get(fields, key) == IF key \in DOMAIN fields THEN fields[key] ELSE 0

\* ------------------------------------------------------- analyze-performance
QuantileFields == {"P50", "P95", "P99", "avg", "max"}

\* A dict given as a function; d[k] = v added or overwritten.
Put(d, k, v) == [x \in DOMAIN d \cup {k} |-> IF x = k THEN v ELSE d[x]]
EmptyDict == [x \in {} |-> 0]

\* Lines 64-72: one pass over the items of a parsed list.
RECURSIVE LoadItems(_, _)
LoadItems(items, acc) ==
  IF items = << >> THEN acc
  ELSE LET item == Head(items)
           next == IF item.quantileName # ""
                   THEN Put(acc, item.quantileName,
                            [f \in QuantileFields |-> Get(item.fields, f)])
                   ELSE acc
       IN LoadItems(Tail(items), next)

\* Faulty variant: one try block around the whole loop, so that the first
\* file that fails ends the loading.
RECURSIVE LoadQuantilesAbort(_, _, _)
LoadQuantilesAbort(files, kind, acc) ==
  IF files = << >> THEN acc
  ELSE LET file == Head(files)
           data == Body(file.body)
       IN IF file.kind # kind THEN LoadQuantilesAbort(Tail(files), kind, acc)
          ELSE IF data.shape # "list" THEN acc
          ELSE LoadQuantilesAbort(Tail(files), kind, LoadItems(data.items, acc))

\* Lines 60-74 (and 77-91 for the VMI pattern): every file matching the glob,
\* in glob order; a file that fails inside the try block adds nothing more.
\* Iterating a dict yields its keys (strings), and str has no .get: the first
\* key raises, so a dict body adds nothing.
RECURSIVE LoadQuantiles(_, _, _)
LoadQuantiles(files, kind, acc) ==
  IF files = << >> THEN acc
  ELSE LET file == Head(files)
           data == Body(file.body)
           next == IF file.kind = kind /\ data.shape = "list"
                   THEN LoadItems(data.items, acc)
                   ELSE acc
       IN LoadQuantiles(Tail(files), kind, next)

\* {} when the directory is missing (falsy, and it has no keys), else the
\* results dict.
NoResults == [exists |-> FALSE]
load_metrics(disk, dir) ==
  IF ~disk[dir].exists THEN NoResults
  ELSE [exists |-> TRUE,
        pod_latency_quantiles |-> LoadQuantiles(disk[dir].files, "pod", EmptyDict),
        vmi_latency_quantiles |-> LoadQuantiles(disk[dir].files, "vmi", EmptyDict)]

\* Faulty variant: the sign convention of the regression detector.
ImprovementSwapped(baseline_val, tuned_val) ==
  [num |-> (tuned_val - baseline_val) * 100, den |-> baseline_val]

\* ((baseline_val - tuned_val) / baseline_val) * 100, for baseline_val # 0.
Improvement(baseline_val, tuned_val) ==
  [num |-> (baseline_val - tuned_val) * 100, den |-> baseline_val]

\* Faulty variant: the first cut point taken with >=.
ImprovementStatusInclusive(improvement) ==
  IF improvement.num >= 20 * improvement.den THEN "Excellent"
  ELSE IF improvement.num > 5 * improvement.den THEN "Better"
  ELSE IF improvement.num > (-5) * improvement.den THEN "Similar"
  ELSE "Worse"

\* Lines 289-300: the status column of the terminal table.
ImprovementStatus(improvement) ==
  IF improvement.num > 20 * improvement.den THEN "Excellent"
  ELSE IF improvement.num > 5 * improvement.den THEN "Better"
  ELSE IF improvement.num > (-5) * improvement.den THEN "Similar"
  ELSE "Worse"

\* Line 417: the status column of the markdown table.
ReportStatus(improvement) ==
  IF improvement.num > 0 THEN "Better" ELSE "Worse"

\* Faulty variant: a zero baseline passes the guard.
BaselineGuardNonNegative(baseline_val) == baseline_val >= 0

\* Line 285 / 415: the guard on a (condition, metric) pair.
BaselineGuard(baseline_val) == baseline_val > 0

Row(condition, metric, baseline_val, tuned_val, status) ==
  [condition |-> condition, metric |-> metric,
   baseline |-> baseline_val, tuned |-> tuned_val,
   improvement |-> Improvement(baseline_val, tuned_val), status |-> status]

\* Line 277 / 407: the conditions of the baseline that are compared.
CommonConditions(bq, tq) == {c \in DOMAIN bq : c \in DOMAIN tq}

\* Faulty variant: a condition the tuned set lacks is compared against 0.
TerminalRowsOneSided(bq, tq) ==
  { Row(p[1], p[2], bq[p[1]][p[2]],
        IF p[1] \in DOMAIN tq THEN tq[p[1]][p[2]] ELSE 0,
        "Excellent") :
      p \in { q \in (DOMAIN bq) \X {"P50", "P95", "P99", "avg"} : bq[q[1]][q[2]] > 0 } }

\* Lines 276-314: the rows of the terminal table.  The rows are kept as a
\* set: the order in which they are printed follows the baseline dict.
TerminalMetrics == {"P50", "P95", "P99", "avg"}
TerminalRows(bq, tq) ==
  { Row(p[1], p[2], bq[p[1]][p[2]], tq[p[1]][p[2]],
        ImprovementStatus(Improvement(bq[p[1]][p[2]], tq[p[1]][p[2]]))) :
      p \in { q \in CommonConditions(bq, tq) \X TerminalMetrics :
                 BaselineGuard(bq[q[1]][q[2]]) } }

\* Lines 406-419: the rows of the markdown table.
ReportMetrics == {"P99", "avg"}
ReportRows(bq, tq) ==
  { Row(p[1], p[2], bq[p[1]][p[2]], tq[p[1]][p[2]],
        ReportStatus(Improvement(bq[p[1]][p[2]], tq[p[1]][p[2]]))) :
      p \in { q \in CommonConditions(bq, tq) \X ReportMetrics :
                 BaselineGuard(bq[q[1]][q[2]]) } }

\* Lines 317-331: the 'Key Improvements' headline.  dict.get('Ready', {})
\* is falsy exactly when the condition is absent (a loaded record always has
\* its five keys).  The two divisions are not guarded.
NoHeadline == [printed |-> FALSE]
Headline(bq, tq) ==
  IF "Ready" \in DOMAIN bq /\ "Ready" \in DOMAIN tq
  THEN IF bq["Ready"]["P99"] = 0 \/ bq["Ready"]["avg"] = 0
       THEN [printed |-> FALSE, raised |-> "ZeroDivisionError"]
       ELSE [printed |-> TRUE, raised |-> "none",
             p99_improvement |-> Improvement(bq["Ready"]["P99"], tq["Ready"]["P99"]),
             avg_improvement |-> Improvement(bq["Ready"]["avg"], tq["Ready"]["avg"])]
  ELSE [printed |-> FALSE, raised |-> "none"]

\* Lines 259-352: compare_tests as a function of the disk.
compare_tests(disk, baseline_dir, tuned_dir) ==
  LET b == load_metrics(disk, baseline_dir)
      t == load_metrics(disk, tuned_dir)
  IN IF ~b.exists \/ ~t.exists
     THEN [compared |-> FALSE, rows |-> {}, headline |-> NoHeadline, raised |-> "none"]
     ELSE LET h == Headline(b.pod_latency_quantiles, t.pod_latency_quantiles)
          IN [compared |-> TRUE,
              rows |-> TerminalRows(b.pod_latency_quantiles, t.pod_latency_quantiles),
              headline |-> IF h.printed THEN h ELSE NoHeadline,
              raised |-> h.raised]

\* Lines 401-420: _write_comparison_table.  Subscripting the {} of a missing
\* directory raises KeyError: the baseline at line 406 before any row, the
\* tuned set at line 407 for the first baseline condition.
write_comparison_table(b, t) ==
  IF ~b.exists THEN [rows |-> {}, raised |-> "KeyError"]
  ELSE IF ~t.exists
       THEN [rows |-> {},
             raised |-> IF DOMAIN b.pod_latency_quantiles = {} THEN "none" ELSE "KeyError"]
       ELSE [rows |-> ReportRows(b.pod_latency_quantiles, t.pod_latency_quantiles),
             raised |-> "none"]

\* Lines 354-390: generate_report; a directory argument of None is "".
\* finished is the print at line 390, reached only without an exception.
generate_report(disk, baseline_dir, tuned_dir, vmi_dir) ==
  LET b == IF baseline_dir # "" THEN load_metrics(disk, baseline_dir) ELSE NoResults
      t == IF tuned_dir # "" THEN load_metrics(disk, tuned_dir) ELSE NoResults
      v == IF vmi_dir # "" THEN load_metrics(disk, vmi_dir) ELSE NoResults
      compare == baseline_dir # "" /\ tuned_dir # ""
      c == IF compare THEN write_comparison_table(b, t)
           ELSE [rows |-> {}, raised |-> "none"]
  IN [opened |-> TRUE,
      sections |-> (IF b.exists THEN {"baseline"} ELSE {})
                   \cup (IF t.exists THEN {"tuned"} ELSE {})
                   \cup (IF v.exists /\ DOMAIN v.vmi_latency_quantiles # {}
                         THEN {"vmi"} ELSE {})
                   \cup (IF compare THEN {"comparison"} ELSE {}),
      rows |-> c.rows,
      finished |-> c.raised = "none",
      raised |-> c.raised]

\* Lines 143-157 and 171-182: the status analyze_single_test prints for one
\* condition.
SinglePodStatus(p99) ==
  IF p99 < 1000 THEN "Excellent" ELSE IF p99 < 5000 THEN "Good" ELSE "Needs Attention"
SingleVmiStatus(p99) ==
  IF p99 < 2000 THEN "Excellent" ELSE IF p99 < 10000 THEN "Good" ELSE "Needs Attention"

\* Lines 110-189: analyze_single_test, the status lines it prints.
analyze_single_test(disk, metrics_dir) ==
  LET r == load_metrics(disk, metrics_dir)
  IN IF ~r.exists THEN {}
     ELSE { [dir |-> metrics_dir, kind |-> "pod", condition |-> c,
             status |-> SinglePodStatus(r.pod_latency_quantiles[c]["P99"])] :
              c \in DOMAIN r.pod_latency_quantiles }
          \cup
          { [dir |-> metrics_dir, kind |-> "vmi", condition |-> c,
             status |-> SingleVmiStatus(r.vmi_latency_quantiles[c]["P99"])] :
              c \in DOMAIN r.vmi_latency_quantiles }

\* ------------------------------------------------------ regression detector
\* The characters of the condition names, for Python's substring test
\* ('P99' in item['quantileName']).
Chars(name) ==
  CASE name = "Ready" -> << "R", "e", "a", "d", "y" >>
    [] name = "PodScheduled" -> << "P", "o", "d", "S", "c", "h", "e", "d", "u", "l", "e", "d" >>
    [] name = "ContainersReady" ->
         << "C", "o", "n", "t", "a", "i", "n", "e", "r", "s", "R", "e", "a", "d", "y" >>
    [] name = "Initialized" -> << "I", "n", "i", "t", "i", "a", "l", "i", "z", "e", "d" >>
    [] name = "VMIRunning" -> << "V", "M", "I", "R", "u", "n", "n", "i", "n", "g" >>
    [] name = "P99" -> << "P", "9", "9" >>
    [] name = "P95" -> << "P", "9", "5" >>
    [] name = "P50" -> << "P", "5", "0" >>
    [] OTHER -> << >>

Contains(name, sub) ==
  LET n == Chars(name)
      m == Chars(sub)
  IN \E i \in 0..(Len(n) - Len(m)) : \A j \in 1..Len(m) : n[i + j] = m[j]

\* Lines 100-106: the list branch of extract_latency_metrics.
RECURSIVE ExtractItems(_, _)
ExtractItems(items, latencies) ==
  IF items = << >> THEN latencies
  ELSE LET item == Head(items)
           v == Get(item.fields, "value")
           next == IF Contains(item.quantileName, "P99") THEN Put(latencies, "p99", v)
                   ELSE IF Contains(item.quantileName, "P95") THEN Put(latencies, "p95", v)
                   ELSE IF Contains(item.quantileName, "P50") THEN Put(latencies, "p50", v)
                   ELSE latencies
       IN ExtractItems(Tail(items), next)

\* Lines 93-113.
extract_latency_metrics(metrics_data) ==
  IF metrics_data.shape = "list" THEN ExtractItems(metrics_data.items, EmptyDict)
  ELSE IF metrics_data.shape = "dict"
       THEN [pc \in {"p99", "p95", "p50"} |->
               LET f == metrics_data.fields
               IN IF pc = "p99" THEN (IF "P99" \in DOMAIN f THEN f["P99"] ELSE Get(f, "p99"))
                  ELSE IF pc = "p95" THEN (IF "P95" \in DOMAIN f THEN f["P95"] ELSE Get(f, "p95"))
                  ELSE (IF "P50" \in DOMAIN f THEN f["P50"] ELSE Get(f, "p50"))]
       ELSE EmptyDict

\* Lines 123-128: metric types in the order of the list; the glob of each.
MetricTypeOrder == << "pod_latency", "pod_latency_tuned", "vmi_latency", "netpol_latency" >>
RECURSIVE Matching(_, _)
Matching(files, kind) ==
  IF files = << >> THEN << >>
  ELSE IF Head(files).kind = kind THEN << Head(files) >> \o Matching(Tail(files), kind)
       ELSE Matching(Tail(files), kind)
Glob(disk, metric_type) ==
  CASE metric_type = "pod_latency" -> Matching(disk[BaselineDir].files, "pod")
    [] metric_type = "pod_latency_tuned" -> Matching(disk[TunedDir].files, "pod")
    [] metric_type = "vmi_latency" -> Matching(disk[VmiDir].files, "vmi")
    [] OTHER -> Matching(disk[BaselineDir].files, "netpol")
                  \o Matching(disk[TunedDir].files, "netpol")
                  \o Matching(disk[VmiDir].files, "netpol")

\* Line 134: max(files, key=mtime), the first of the largest.
Latest(files) ==
  files[CHOOSE i \in 1..Len(files) :
          \A j \in 1..Len(files) :
             files[j].mtime < files[i].mtime \/ (files[j].mtime = files[i].mtime /\ j >= i)]

\* bool(data) for a parsed document; parse_metrics_file gives None on error.
Truthy(data) ==
  \/ data.shape = "list" /\ data.items # << >>
  \/ data.shape = "dict" /\ DOMAIN data.fields # {}

\* Lines 130-140, for the metric types from position i on.
RECURSIVE LoadTypes(_, _, _)
LoadTypes(disk, i, current) ==
  IF i > Len(MetricTypeOrder) THEN current
  ELSE LET metric_type == MetricTypeOrder[i]
           files == Glob(disk, metric_type)
           next == IF files = << >> THEN current
                   ELSE LET data == Body(Latest(files).body)
                            latencies == extract_latency_metrics(data)
                        IN IF Truthy(data) /\ DOMAIN latencies # {}
                           THEN Put(current, metric_type, latencies)
                           ELSE current
       IN LoadTypes(disk, i + 1, next)

\* Lines 115-147.
load_current_metrics(disk) == LoadTypes(disk, 1, EmptyDict)

\* Faulty variant: the sign convention of analyze-performance.
calculate_regression_as_improvement(baseline_value, current_value) ==
  IF baseline_value = 0 THEN [num |-> 0, den |-> 1]
  ELSE [num |-> (baseline_value - current_value) * 100, den |-> baseline_value]

\* Lines 149-153.
calculate_regression(baseline_value, current_value) ==
  IF baseline_value = 0 THEN [num |-> 0, den |-> 1]
  ELSE [num |-> (current_value - baseline_value) * 100, den |-> baseline_value]

\* Faulty variant: half the threshold already counts as a regression.
RegressionStatusHalfThreshold(regression, threshold) ==
  IF 2 * regression.num > threshold * regression.den THEN "REGRESSION"
  ELSE IF regression.num < (-5) * regression.den THEN "IMPROVED"
  ELSE "OK"

\* Faulty variant: the threshold itself counts as a regression.
RegressionStatusInclusive(regression, threshold) ==
  IF regression.num >= threshold * regression.den THEN "REGRESSION"
  ELSE IF 2 * regression.num > threshold * regression.den THEN "WARNING"
  ELSE IF regression.num < (-5) * regression.den THEN "IMPROVED"
  ELSE "OK"

\* Lines 182-197: the status of one comparison; self.threshold / 2 is
\* compared as 2 * regression > threshold.
RegressionStatus(regression, threshold) ==
  IF regression.num > threshold * regression.den THEN "REGRESSION"
  ELSE IF 2 * regression.num > threshold * regression.den THEN "WARNING"
  ELSE IF regression.num < (-5) * regression.den THEN "IMPROVED"
  ELSE "OK"

\* The (metric type, percentile) pairs in the order compare_metrics visits
\* them: current.items() follows the insertion order of load_current_metrics.
PercentileOrder == << "p50", "p95", "p99" >>
PairOrder ==
  [k \in 1..(Len(MetricTypeOrder) * Len(PercentileOrder)) |->
     << MetricTypeOrder[((k - 1) \div Len(PercentileOrder)) + 1],
        PercentileOrder[((k - 1) % Len(PercentileOrder)) + 1] >>]

\* Lines 162-200, from pair k on; acc holds the printed lines and
\* self.regressions_found.
RECURSIVE CompareFrom(_, _, _, _, _)
CompareFrom(k, baseline_metrics, current, threshold, acc) ==
  IF k > Len(PairOrder) THEN acc
  ELSE LET metric_type == PairOrder[k][1]
           percentile == PairOrder[k][2]
           compared == /\ metric_type \in DOMAIN current
                       /\ metric_type \in DOMAIN baseline_metrics
                       /\ percentile \in DOMAIN current[metric_type]
                       /\ percentile \in DOMAIN baseline_metrics[metric_type]
       IN IF ~compared
          THEN CompareFrom(k + 1, baseline_metrics, current, threshold, acc)
          ELSE LET baseline_val == baseline_metrics[metric_type][percentile]
                   current_val == current[metric_type][percentile]
                   regression == calculate_regression(baseline_val, current_val)
                   status == RegressionStatus(regression, threshold)
                   entry == [metric |-> metric_type, percentile |-> percentile,
                             baseline |-> baseline_val, current |-> current_val,
                             regression |-> regression]
                   line == [metric |-> metric_type, percentile |-> percentile,
                            baseline |-> baseline_val, current |-> current_val,
                            regression |-> regression, status |-> status]
               IN CompareFrom(k + 1, baseline_metrics, current, threshold,
                              [lines |-> Append(acc.lines, line),
                               regressions_found |->
                                 IF status = "REGRESSION"
                                 THEN Append(acc.regressions_found, entry)
                                 ELSE acc.regressions_found])

\* Lines 155-202.
compare_metrics(baseline, current, threshold) ==
  CompareFrom(1, baseline.metrics, current, threshold,
              [lines |-> << >>, regressions_found |-> << >>])

\* ---------------------------------------------------- the baseline file
\* json.dump writes an object as its members in insertion order; json.load
\* rebuilds the dict member by member (a repeated key keeps the last value).
\* The text of a baseline file keeps the members of 'metrics' as sequences
\* of <<key, value>>; the timestamp is "now" for a file written by a run.
DumpOrder == << "p99", "p95", "p50" >>
RECURSIVE DumpKeys(_, _, _)
DumpKeys(d, order, i) ==
  IF i > Len(order) THEN << >>
  ELSE IF order[i] \in DOMAIN d
       THEN << << order[i], d[order[i]] >> >> \o DumpKeys(d, order, i + 1)
       ELSE DumpKeys(d, order, i + 1)
RECURSIVE LoadMembers(_, _)
LoadMembers(members, acc) ==
  IF members = << >> THEN acc
  ELSE LoadMembers(Tail(members), Put(acc, Head(members)[1], Head(members)[2]))

DumpMetrics(metrics) ==
  DumpKeys([t \in DOMAIN metrics |-> DumpKeys(metrics[t], DumpOrder, 1)],
           MetricTypeOrder, 1)
LoadMetrics(members) ==
  LET outer == LoadMembers(members, EmptyDict)
  IN [t \in DOMAIN outer |-> LoadMembers(outer[t], EmptyDict)]

InvalidText == [valid |-> FALSE, keys |-> {}, timestamp |-> "", threshold |-> 0,
                metrics |-> << >>]
EmptyObjectText == [valid |-> TRUE, keys |-> {}, timestamp |-> "", threshold |-> 0,
                    metrics |-> << >>]
Absent == [exists |-> FALSE, text |-> InvalidText]
OnDisk(text) == [exists |-> TRUE, text |-> text]

DefaultBaselinePath == "metrics-dir/performance-baseline.json"
CustomBaselinePath == "custom/baseline.json"
BaselinePaths == {DefaultBaselinePath, CustomBaselinePath}

\* Lines 354-357 of main: the baseline file the detector is built with.
BaselineFileOf(baseline_arg) ==
  IF baseline_arg = "" THEN DefaultBaselinePath ELSE baseline_arg

\* Lines 204-220: the file written, and where.  write_ok is whether open()
\* and json.dump succeed; a failure is caught and leaves the disk as it was.
SavePath(baseline_file) == DefaultBaselinePath
save_baseline(files, baseline_file, current_metrics, threshold, write_ok) ==
  IF write_ok
  THEN [files EXCEPT ![SavePath(baseline_file)] =
          OnDisk([valid |-> TRUE, keys |-> {"timestamp", "threshold", "metrics"},
                  timestamp |-> "now", threshold |-> threshold,
                  metrics |-> DumpMetrics(current_metrics)])]
  ELSE files

\* Lines 59-81: None, or the parsed object; baseline.get('metrics', {}).
NoBaseline == [loaded |-> FALSE, keys |-> {}, metrics |-> EmptyDict]
load_baseline(files, baseline_file) ==
  IF baseline_file = "" THEN NoBaseline
  ELSE IF ~files[baseline_file].exists \/ ~files[baseline_file].text.valid THEN NoBaseline
  ELSE [loaded |-> TRUE, keys |-> files[baseline_file].text.keys,
        metrics |-> IF "metrics" \in files[baseline_file].text.keys
                    THEN LoadMetrics(files[baseline_file].text.metrics)
                    ELSE EmptyDict]

\* Faulty variant: success whatever was found.
NoRegressionsIgnored(found) == TRUE

\* Line 284: the value run_detection returns after a comparison.
NoRegressions(found) == Len(found) = 0

\* Line 368: sys.exit(0 if success else 1).
ExitStatus(success) == IF success THEN 0 ELSE 1

\* Faulty variant: the baseline is loaded and compared before the mode is
\* looked at, and a saving run answers with the outcome of the comparison.
run_detection_compare_first(disk, files, baseline_file, threshold, save, write_ok) ==
  LET current == load_current_metrics(disk)
      baseline == load_baseline(files, baseline_file)
      none == [lines |-> << >>, regressions_found |-> << >>]
      r == IF ~baseline.loaded \/ baseline.keys = {} THEN none
           ELSE compare_metrics(baseline, current, threshold)
  IN IF DOMAIN current = {}
     THEN [current_metrics |-> current, files |-> files, baseline |-> NoBaseline,
           result |-> none, success |-> FALSE]
     ELSE IF save
     THEN [current_metrics |-> current,
           files |-> save_baseline(files, baseline_file, current, threshold, write_ok),
           baseline |-> baseline, result |-> r,
           success |-> NoRegressions(r.regressions_found)]
     ELSE IF ~baseline.loaded \/ baseline.keys = {}
     THEN [current_metrics |-> current, files |-> files, baseline |-> baseline,
           result |-> none, success |-> FALSE]
     ELSE [current_metrics |-> current, files |-> files, baseline |-> baseline,
           result |-> r, success |-> NoRegressions(r.regressions_found)]

\* Lines 254-284: run_detection.  'not baseline' holds for None and for {}.
run_detection(disk, files, baseline_file, threshold, save, write_ok) ==
  LET current == load_current_metrics(disk)
      baseline == load_baseline(files, baseline_file)
      none == [lines |-> << >>, regressions_found |-> << >>]
  IN IF DOMAIN current = {}
     THEN [current_metrics |-> current, files |-> files, baseline |-> NoBaseline,
           result |-> none, success |-> FALSE]
     ELSE IF save
     THEN [current_metrics |-> current,
           files |-> save_baseline(files, baseline_file, current, threshold, write_ok),
           baseline |-> NoBaseline, result |-> none, success |-> TRUE]
     ELSE IF ~baseline.loaded \/ baseline.keys = {}
     THEN [current_metrics |-> current, files |-> files, baseline |-> baseline,
           result |-> none, success |-> FALSE]
     ELSE LET r == compare_metrics(baseline, current, threshold)
          IN [current_metrics |-> current, files |-> files, baseline |-> baseline,
              result |-> r, success |-> NoRegressions(r.regressions_found)]

\* ------------------------------------------------------------ VMI analyzer
\* module05-vmi-analyzer.py lines 39-78: load_vmi_metrics.  Only the first
\* glob match is opened; any failure in it gives {}.
load_vmi_metrics(disk) ==
  IF ~disk[VmiDir].exists THEN EmptyDict
  ELSE LET vmi_files == Matching(disk[VmiDir].files, "vmi")
       IN IF vmi_files = << >> THEN EmptyDict
          ELSE LET data == Body(vmi_files[1].body)
               IN IF data.shape = "list" THEN LoadItems(data.items, EmptyDict)
                  ELSE EmptyDict

\* Lines 95-135: the assessment of one phase.
VmiPhaseStatus(phase, p99) ==
  IF phase = "VMIScheduled"
  THEN IF p99 < 5000 THEN "Excellent" ELSE IF p99 < 15000 THEN "Good" ELSE "Slow"
  ELSE IF phase = "VMIRunning"
  THEN IF p99 < 30000 THEN "Excellent" ELSE IF p99 < 60000 THEN "Good" ELSE "Slow"
  ELSE IF p99 < 10000 THEN "Good" ELSE "Check"

\* Lines 80-145: analyze_vmi_startup_phases, one status line per phase.
analyze_vmi_startup_phases(vmi_metrics) ==
  { [dir |-> VmiDir, kind |-> "vmi", condition |-> phase,
     status |-> VmiPhaseStatus(phase, vmi_metrics[phase]["P99"])] :
      phase \in DOMAIN vmi_metrics }

\* ------------------------------------------------ external 'oc' processes
\* What subprocess.run(['oc'] + cmd, timeout=...) can end in: the process
\* exits with a return code and its stripped stdout, the timeout expires, or
\* the process cannot be started.  A stdout is empty, a JSON object with an
\* 'items' list, text that json.loads rejects, or one word (jsonpath).
NoOutput == [empty |-> TRUE, valid |-> FALSE, items |-> << >>, text |-> ""]
JsonItems(items) == [empty |-> FALSE, valid |-> TRUE, items |-> items, text |-> ""]
Garbage == [empty |-> FALSE, valid |-> FALSE, items |-> << >>, text |-> "<html>"]
Word(text) == [empty |-> FALSE, valid |-> FALSE, items |-> << >>, text |-> text]
Message(text) == [empty |-> FALSE, valid |-> FALSE, items |-> << >>, text |-> text]

Exited(returncode, stdout) == [kind |-> "exit", returncode |-> returncode, stdout |-> stdout]
TimeoutExpired == [kind |-> "timeout", returncode |-> -1, stdout |-> NoOutput]
NotStarted == [kind |-> "exception", returncode |-> -1, stdout |-> NoOutput]

\* The ways one invocation can end, given the stdouts of a successful one.
Processes(stdouts) ==
  {TimeoutExpired, NotStarted, Exited(1, NoOutput)} \cup { Exited(0, o) : o \in stdouts }

\* module04-tuning-validator.py lines 54-62: run_oc_command.
run_oc_command(process) ==
  IF process.kind = "exit"
  THEN [success |-> process.returncode = 0, output |-> process.stdout]
  ELSE IF process.kind = "timeout"
  THEN [success |-> FALSE, output |-> Message("Command timed out")]
  ELSE [success |-> FALSE, output |-> Message("[Errno 2] No such file or directory: 'oc'")]

\* dict.get(key, default) on a dict given as a function.
GetOr(d, key, default) == IF key \in DOMAIN d THEN d[key] ELSE default

\* ---------------------------------------------------------- tuning validator
\* Lines 45-52: validation_results after construction, in insertion order.
CheckOrder == << "performance_profile", "mcp_status", "rt_kernel", "cpu_isolation",
                "hugepages", "node_tuning" >>
Checks == { CheckOrder[i] : i \in DOMAIN CheckOrder }
NoneValidated == [c \in Checks |-> FALSE]
NewValidator ==
  [is_metal_instance |-> FALSE, instance_type |-> "unknown",
   validation_results |-> NoneValidated]
Passed(v, check) == [v EXCEPT !.validation_results[check] = TRUE]

\* The characters of the instance types and system UUIDs, str.upper() and
\* str.lower() of one character, and the two tests of detect_instance_type.
TextChars(text) ==
  CASE text = "m5.4xlarge" -> << "m", "5", ".", "4", "x", "l", "a", "r", "g", "e" >>
    [] text = "C5N.METAL" -> << "C", "5", "N", ".", "M", "E", "T", "A", "L" >>
    [] text = ".metal" -> << ".", "m", "e", "t", "a", "l" >>
    [] text = "ec2e1916" -> << "e", "c", "2", "e", "1", "9", "1", "6" >>
    [] text = "4c4c4544" -> << "4", "c", "4", "c", "4", "5", "4", "4" >>
    [] text = "EC2" -> << "E", "C", "2" >>
    [] OTHER -> << >>
UpperOf(ch) ==
  CASE ch = "e" -> "E" [] ch = "c" -> "C" [] ch = "m" -> "M" [] ch = "t" -> "T"
    [] ch = "a" -> "A" [] ch = "l" -> "L" [] ch = "n" -> "N" [] ch = "x" -> "X"
    [] ch = "r" -> "R" [] ch = "g" -> "G" [] OTHER -> ch
LowerOf(ch) ==
  CASE ch = "E" -> "e" [] ch = "C" -> "c" [] ch = "M" -> "m" [] ch = "T" -> "t"
    [] ch = "A" -> "a" [] ch = "L" -> "l" [] ch = "N" -> "n" [] ch = "X" -> "x"
    [] ch = "R" -> "r" [] ch = "G" -> "g" [] OTHER -> ch
\* Line 81: '.metal' in instance_type.lower()
HasMetalSuffix(instance_type) ==
  LET n == [i \in DOMAIN TextChars(instance_type) |-> LowerOf(TextChars(instance_type)[i])]
      m == TextChars(".metal")
  IN \E i \in 0..(Len(n) - Len(m)) : \A j \in 1..Len(m) : n[i + j] = m[j]
\* Line 89: system_uuid.upper().startswith('EC2')
StartsWithEC2(system_uuid) ==
  LET n == [i \in DOMAIN TextChars(system_uuid) |-> UpperOf(TextChars(system_uuid)[i])]
      m == TextChars("EC2")
  IN Len(n) >= Len(m) /\ \A j \in 1..Len(m) : n[j] = m[j]

\* A node of 'oc get nodes -o json': the instance-type label ("" when the
\* label is absent), nodeInfo.systemUUID, whether 'rt' occurs in
\* nodeInfo.kernelVersion, and whether status.allocatable has a key with
\* 'hugepages' in it.
Node(instance_type, system_uuid, kernel_has_rt, allocatable_has_hugepages) ==
  [instance_type |-> instance_type, systemUUID |-> system_uuid,
   kernel_has_rt |-> kernel_has_rt,
   allocatable_has_hugepages |-> allocatable_has_hugepages]

\* Lines 64-96: detect_instance_type.
detect_instance_type(v, r) ==
  IF ~r.success \/ ~r.output.valid \/ r.output.items = << >> THEN v
  ELSE LET node == r.output.items[1]
       IN IF node.instance_type # ""
          THEN [v EXCEPT !.instance_type = node.instance_type,
                         !.is_metal_instance = HasMetalSuffix(node.instance_type)]
          ELSE IF StartsWithEC2(node.systemUUID)
          THEN [v EXCEPT !.is_metal_instance = FALSE, !.instance_type = "virtualized (EC2)"]
          ELSE [v EXCEPT !.is_metal_instance = TRUE, !.instance_type = "bare-metal"]

\* A PerformanceProfile: spec.cpu and spec.realTimeKernel as dicts,
\* spec.hugepages.pages and spec.nodeSelector as lists of entries.
Profile(cpu, pages, realTimeKernel, nodeSelector) ==
  [cpu |-> cpu, pages |-> pages, realTimeKernel |-> realTimeKernel,
   nodeSelector |-> nodeSelector]

\* Lines 124-204: validate_performance_profile, the dict it returns.
NoProfile(status) ==
  [status |-> status, reserved_cpus |-> "Not configured", isolated_cpus |-> "Not configured",
   rt_kernel |-> FALSE, node_selector |-> << >>, hugepages |-> << >>]
validate_performance_profile(r) ==
  IF ~r.success \/ r.output.empty THEN NoProfile("missing")
  ELSE IF ~r.output.valid THEN NoProfile("error")
  ELSE IF r.output.items = << >> THEN NoProfile("missing")
  ELSE LET spec == r.output.items[1]
       IN [status |-> "configured",
           reserved_cpus |-> GetOr(spec.cpu, "reserved", "Not configured"),
           isolated_cpus |-> GetOr(spec.cpu, "isolated", "Not configured"),
           rt_kernel |-> GetOr(spec.realTimeKernel, "enabled", FALSE),
           node_selector |-> spec.nodeSelector,
           hugepages |-> spec.pages]

\* Lines 229-235: one MachineConfigPool is ready, by its four counts.
Mcp(machine, ready, updated, degraded) ==
  [machineCount |-> machine, readyMachineCount |-> ready,
   updatedMachineCount |-> updated, degradedMachineCount |-> degraded]
McpReady(mcp) ==
  /\ mcp.readyMachineCount = mcp.machineCount
  /\ mcp.updatedMachineCount = mcp.machineCount
  /\ mcp.degradedMachineCount = 0

\* What a check gives: whether it sets its entry of validation_results,
\* and the 'status' of the dict it returns.
Outcome(passed, status) == [passed |-> passed, status |-> status]

\* Lines 206-266: validate_mcp_status.
validate_mcp_status(r) ==
  IF ~r.success \/ ~r.output.valid THEN Outcome(FALSE, "error")
  ELSE IF \A i \in DOMAIN r.output.items : McpReady(r.output.items[i])
       THEN Outcome(TRUE, "ready")
       ELSE Outcome(FALSE, "updating")

\* Faulty variant: the RT-kernel check is skipped on a virtualized instance
\* and counted as passed whatever the profile says.
RtKernelOnVirtualizedSkipped(rt_enabled_in_profile) == TRUE

\* Lines 276-287: the RT-kernel check on a virtualized instance.
RtKernelOnVirtualized(rt_enabled_in_profile) == ~rt_enabled_in_profile

\* Lines 268-350: validate_rt_kernel.  RtKernelNeedsNodes says whether the
\* node query of line 307 is issued; r is its result.
RtKernelNeedsNodes(v, profile_info) ==
  v.is_metal_instance /\ profile_info.rt_kernel /\ profile_info.node_selector # << >>
validate_rt_kernel(v, profile_info, r) ==
  IF ~v.is_metal_instance
  THEN IF RtKernelOnVirtualized(profile_info.rt_kernel)
       THEN Outcome(TRUE, "correctly_disabled")
       ELSE Outcome(FALSE, "misconfigured")
  ELSE IF ~profile_info.rt_kernel THEN Outcome(TRUE, "disabled_optional")
  ELSE IF profile_info.node_selector = << >> THEN Outcome(FALSE, "no_selector")
  ELSE IF ~r.success \/ ~r.output.valid THEN Outcome(FALSE, "error")
  ELSE IF r.output.items = << >> THEN Outcome(FALSE, "no_nodes")
  ELSE IF \A i \in DOMAIN r.output.items : r.output.items[i].kernel_has_rt
       THEN Outcome(TRUE, "installed")
       ELSE Outcome(FALSE, "partial")

\* Lines 352-416: validate_cpu_isolation.  lookup is the node-name query of
\* lines 373-376, debug the 'oc debug node' of lines 387-390, issued only
\* when the lookup gave a name; its output is /proc/cmdline, here the word
\* 'isolcpus' when the command line holds it.
CpuConfigured(profile_info) ==
  profile_info.reserved_cpus # "Not configured" /\ profile_info.isolated_cpus # "Not configured"
CpuLookupGaveName(lookup) == lookup.success /\ ~lookup.output.empty
validate_cpu_isolation(profile_info, lookup, debug) ==
  IF ~CpuConfigured(profile_info) THEN Outcome(FALSE, "not_configured")
  ELSE IF ~CpuLookupGaveName(lookup) THEN Outcome(TRUE, "profile_configured")
  ELSE IF debug.success /\ ~debug.output.empty /\ debug.output.text = "isolcpus"
       THEN Outcome(TRUE, "applied")
       ELSE Outcome(TRUE, "profile_configured")

\* Lines 418-493: validate_hugepages; r is the node query of lines 442-445.
validate_hugepages(profile_info, r) ==
  IF profile_info.hugepages = << >> THEN Outcome(TRUE, "not_configured")
  ELSE IF ~r.success THEN Outcome(TRUE, "profile_configured")
  ELSE IF ~r.output.valid \/ r.output.items = << >> THEN Outcome(TRUE, "profile_configured")
  ELSE IF r.output.items[1].allocatable_has_hugepages THEN Outcome(TRUE, "allocated")
  ELSE Outcome(TRUE, "pending")

\* Lines 495-581: validate_node_tuning.  pods is the query of lines 501-504;
\* tuned the query of lines 543-545, issued only when the pods were listed.
\* A pod is its phase; a Tuned is whether its name holds
\* 'openshift-node-performance'.
TunedQueried(pods) == pods.success /\ pods.output.valid /\ pods.output.items # << >>
validate_node_tuning(pods, tuned) ==
  IF ~pods.success \/ ~pods.output.valid THEN Outcome(FALSE, "error")
  ELSE IF pods.output.items = << >> THEN Outcome(FALSE, "no_pods")
  ELSE LET all_running == \A i \in DOMAIN pods.output.items : pods.output.items[i] = "Running"
           found == /\ tuned.success /\ tuned.output.valid
                    /\ \E i \in DOMAIN tuned.output.items : tuned.output.items[i]
       IN IF found THEN Outcome(TRUE, "configured")
          ELSE IF all_running THEN Outcome(TRUE, "running")
          ELSE Outcome(FALSE, "partial")

\* Faulty variant: one failed check is tolerated.
AllPassedButOne(validation_results) ==
  Cardinality({c \in DOMAIN validation_results : validation_results[c]})
    >= Cardinality(DOMAIN validation_results) - 1

\* Lines 583-615: print_summary, passed_checks == total_checks.
AllPassed(validation_results) ==
  Cardinality({c \in DOMAIN validation_results : validation_results[c]})
    = Cardinality(DOMAIN validation_results)

\* ------------------------------------------------ comprehensive validator
\* module06-comprehensive-validator.py lines 41-51: validation_results in
\* insertion order, and metrics_found as the set of its keys (each is only
\* ever set to True).
WorkshopCheckOrder == << "module3_baseline", "module4_tuning", "module5_vmi",
                        "module5_network", "cluster_health", "performance_improvement" >>
WorkshopChecks == { WorkshopCheckOrder[i] : i \in DOMAIN WorkshopCheckOrder }
NewWorkshopValidator ==
  [validation_results |-> [c \in WorkshopChecks |-> FALSE], metrics_found |-> {}]
Validated(w, check) == [w EXCEPT !.validation_results[check] = TRUE]
Found(w, metric) == [w EXCEPT !.metrics_found = @ \cup {metric}]

\* A file of a metrics directory by the part of its name the validator
\* looks at: one of the two expected baseline names (lines 86-89), a
\* vmiLatency*.json, a netpolLatency*.json, or another name.
HasFile(d, dir, kind) ==
  d[dir].exists /\ \E i \in DOMAIN d[dir].files : d[dir].files[i].kind = kind

\* Lines 74-107: validate_module3_baseline.
validate_module3_baseline(w, d) ==
  IF ~d[BaselineDir].exists THEN [w |-> w, status |-> "missing"]
  ELSE IF HasFile(d, BaselineDir, "baseline-workload")
  THEN [w |-> Found(Validated(w, "module3_baseline"), "baseline"), status |-> "complete"]
  ELSE [w |-> w, status |-> "incomplete"]

\* Lines 115-139: has_profile.  An item of the listing is whether the
\* profile carries metadata.name and spec; profile['metadata']['name'] of
\* one that does not raises KeyError, which the except clause of line 138
\* does not catch.
ProfileListed(r) ==
  r.success /\ ~r.output.empty /\ r.output.valid /\ r.output.items # << >>
ProfileKeyError(r) == ProfileListed(r) /\ ~r.output.items[1]

\* Lines 109-160: validate_module4_tuning, for a listing that raises nothing.
validate_module4_tuning(w, d, r) ==
  IF ProfileListed(r) /\ d[TunedDir].exists
  THEN [w |-> Found(Validated(w, "module4_tuning"), "tuned"), status |-> "complete"]
  ELSE IF ProfileListed(r) THEN [w |-> w, status |-> "partial"]
  ELSE [w |-> w, status |-> "skipped"]

\* Lines 162-203: validate_module5_vmi; the VMI query of line 183 only
\* prints.
VmiQueried(d) == HasFile(d, VmiDir, "vmi")
validate_module5_vmi(w, d) ==
  IF ~d[VmiDir].exists THEN [w |-> w, status |-> "missing"]
  ELSE IF HasFile(d, VmiDir, "vmi")
  THEN [w |-> Found(Validated(w, "module5_vmi"), "vmi"), status |-> "complete"]
  ELSE [w |-> w, status |-> "incomplete"]

\* Lines 205-223: validate_module5_network; the glob **/netpolLatency*.json
\* looks into every directory below metrics_dir.
validate_module5_network(w, d) ==
  IF \E dir \in Dirs : HasFile(d, dir, "netpol")
  THEN [w |-> Validated(w, "module5_network"), status |-> "complete"]
  ELSE [w |-> w, status |-> "skipped"]

\* Lines 236-279: the three health checks.  An item of a listing is whether
\* the node is Ready, the operator Available, the pod Running.
Listed(r) == r.success /\ ~r.output.empty /\ r.output.valid
AllOf(r) == Listed(r) /\ \A i \in DOMAIN r.output.items : r.output.items[i]
SomeOf(r) == Listed(r) /\ \E i \in DOMAIN r.output.items : r.output.items[i]

\* Lines 225-284: validate_cluster_health.
validate_cluster_health(w, nodes, operators, pods) ==
  IF AllOf(nodes) /\ AllOf(operators) /\ SomeOf(pods)
  THEN [w |-> Validated(w, "cluster_health"), status |-> "healthy"]
  ELSE [w |-> w, status |-> "degraded"]

\* Lines 286-307: calculate_improvements.
calculate_improvements(w) ==
  IF "baseline" \in w.metrics_found /\ "tuned" \in w.metrics_found
  THEN [w |-> Validated(w, "performance_improvement"), status |-> "baseline_to_tuned"]
  ELSE [w |-> w, status |-> "none"]

\* Lines 316-317 / 515-516: completed and total.
Completed(validation_results) ==
  Cardinality({c \in DOMAIN validation_results : validation_results[c]})
Total(validation_results) == Cardinality(DOMAIN validation_results)

\* Faulty variant: the 70 percent mark rounded down to a whole number of
\* checks.
MostPassedRounded(completed, total) == completed >= (7 * total) \div 10

\* Lines 340 / 520: completed >= total * 0.7.
MostPassed(completed, total) == 10 * completed >= 7 * total

\* Lines 336-346: the verdict print_summary prints.
Verdict(validation_results) ==
  IF Completed(validation_results) = Total(validation_results) THEN "ALL VALIDATIONS PASSED"
  ELSE IF MostPassed(Completed(validation_results), Total(validation_results))
  THEN "MOST VALIDATIONS PASSED"
  ELSE "VALIDATION INCOMPLETE"

\* Lines 514-523: the exit status of main.
WorkshopExit(validation_results) ==
  IF Completed(validation_results) = Total(validation_results) THEN 0
  ELSE IF MostPassed(Completed(validation_results), Total(validation_results)) THEN 0
  ELSE 1

\* ---------------------------------------------------------------- state
VARIABLES
  prog,               \* which script the behaviour runs
  disk,               \* the metric directories below ~/kube-burner-configs
  files,              \* the files outside the metric directories, by path
  mode,               \* what the last run was asked to do, "none" before it
  args,               \* the command line of the last run
  table,              \* compare_tests: rows printed
  headline,           \* compare_tests: the 'Key Improvements' block
  report,             \* generate_report: the report file
  singles,            \* analyze_single_test: status lines printed
  raised,             \* the exception that ended the last run, or "none"
  exit_code,          \* the exit status of the last run, -1 before it
  current_metrics,    \* detector: load_current_metrics()
  baseline,           \* detector: load_baseline()
  lines,              \* detector: comparison lines printed
  regressions_found,  \* detector: self.regressions_found
  saved,              \* detector: save_baseline wrote the file
  pc,                 \* the method a step-wise run is about to call
  validator,          \* tuning validator: the TuningValidator object
  profile_info,       \* tuning validator: run_validation's profile_info
  info,               \* tuning validator: the status each check returned
  oc_calls,           \* the 'oc' invocations of the run, in order
  vmi_ip,             \* VMI network tester: vmi['ip'], "" for None
  attempt,            \* the loop variable i of a polling loop
  returned,           \* what the tested function returned, "none" before
  vmi_was_hidden,     \* run_module_analysis: the local of that name
  analyzer,           \* run_module_analysis: the analyzer subprocess
  entry_disk          \* the disk when the run was entered

vars == << prog, disk, files, mode, args, table, headline, report, singles,
           raised, exit_code, current_metrics, baseline, lines, regressions_found,
           saved, pc, validator, profile_info, info, oc_calls, vmi_ip, attempt,
           returned, vmi_was_hidden, analyzer, entry_disk >>

analyzeOut == << table, headline, report, singles, raised >>
detectorOut == << current_metrics, baseline, lines, regressions_found, saved >>
pollVars == << vmi_ip, attempt, returned >>
wrapperVars == << vmi_was_hidden, analyzer, entry_disk >>
stepVars == << pc, validator, profile_info, info, oc_calls, pollVars, wrapperVars >>
validatorVars == << validator, profile_info, info >>
metricVars == << disk, files, mode, args, analyzeOut, detectorOut, wrapperVars >>
healthFrame == << disk, mode, args, analyzeOut, detectorOut, wrapperVars >>

NoReport == [opened |-> FALSE, sections |-> {}, rows |-> {}, finished |-> FALSE,
             raised |-> "none"]
NoArgs == [baseline |-> "", threshold |-> 0, save_baseline |-> FALSE]

\* ------------------------------------------------------------ the disks
Numbered(f) == [i \in DOMAIN f |-> File(f[i].kind, f[i].body, i)]
DirsWith(k, candidates) ==
  IF k = 0 THEN {Present(<< >>)}
  ELSE {Present(Numbered(f)) : f \in [1..k -> candidates]}
Splits == {n \in [Dirs -> 0..MaxFiles] : n[BaselineDir] + n[TunedDir] + n[VmiDir] <= MaxFiles}
MaybeMissing(k) == IF k = 0 THEN {Missing} ELSE {}
DiskOf(b, t, v) == [d \in Dirs |-> IF d = BaselineDir THEN b ELSE IF d = TunedDir THEN t ELSE v]

\* Disks for analyze-performance: any directory may be missing, and each
\* present one holds kube-burner measurement lists or unreadable files.
AnalyzeCandidates ==
  { [kind |-> "pod", body |-> id] :
      id \in {"bad", "base", "tuned", "specB", "specC", "zeroB", "dictA"} }
  \cup { [kind |-> "vmi", body |-> "vmi"] }
AnalyzeDisks ==
  UNION { { DiskOf(b, t, v) :
              b \in DirsWith(n[BaselineDir], AnalyzeCandidates) \cup MaybeMissing(n[BaselineDir]),
              t \in DirsWith(n[TunedDir], AnalyzeCandidates) \cup MaybeMissing(n[TunedDir]),
              v \in DirsWith(n[VmiDir], AnalyzeCandidates) \cup MaybeMissing(n[VmiDir]) } :
          n \in Splits }

\* Disks for the detector: measurement files in the baseline and VMI
\* directories, as a list, as one object, or unreadable.
DetectorBodies == {"bad", "base", "dictA", "dictB", "dictZ"}
DetectorDisks ==
  UNION { { DiskOf(b, Present(<< >>), v) :
              b \in DirsWith(n[BaselineDir], { [kind |-> "pod", body |-> id] : id \in DetectorBodies }),
              v \in DirsWith(n[VmiDir], { [kind |-> "vmi", body |-> id] : id \in {"dictA", "dictB"} }) } :
          n \in {m \in Splits : m[TunedDir] = 0} }

\* Disks for the VMI analyzer: the VMI directory missing, or holding VMI
\* measurement lists and unreadable files.
VmiAnalyzerDisks ==
  { DiskOf(Present(<< >>), Present(<< >>), v) :
      v \in {Missing} \cup UNION { DirsWith(k, { [kind |-> "vmi", body |-> id] :
                                                  id \in {"bad", "vmi", "vmiB"} }) :
                                    k \in 0..MaxFiles } }

\* Baseline files found on disk before the first run.
OldBaselineA ==
  [valid |-> TRUE, keys |-> {"timestamp", "threshold", "metrics"},
   timestamp |-> "earlier", threshold |-> 10,
   metrics |-> << << "pod_latency", << << "p99", 20 >>, << "p95", 20 >>, << "p50", 20 >> >> >> >>]
OldBaselineB ==
  [valid |-> TRUE, keys |-> {"timestamp", "threshold", "metrics"},
   timestamp |-> "earlier", threshold |-> 10,
   metrics |-> << << "pod_latency", << << "p99", 20 >>, << "p50", 0 >> >> >>,
                  << "netpol_latency", << << "p99", 20 >>, << "p95", 20 >>, << "p50", 20 >> >> >> >>]
FilesOf(d, c) == [p \in BaselinePaths |-> IF p = DefaultBaselinePath THEN d ELSE c]
DetectorFiles ==
  { FilesOf(d, Absent) :
      d \in {Absent, OnDisk(InvalidText), OnDisk(EmptyObjectText),
              OnDisk(OldBaselineA), OnDisk(OldBaselineB)} }
  \cup { FilesOf(Absent, OnDisk(OldBaselineB)), FilesOf(OnDisk(OldBaselineA), OnDisk(OldBaselineB)) }
NoFiles == [p \in BaselinePaths |-> Absent]

Thresholds == {5, 10}

\* -------------------------------------------------------------- Init
InitOut ==
  /\ mode = "none"
  /\ args = NoArgs
  /\ table = {}
  /\ headline = NoHeadline
  /\ report = NoReport
  /\ singles = {}
  /\ raised = "none"
  /\ exit_code = -1
  /\ current_metrics = EmptyDict
  /\ baseline = NoBaseline
  /\ lines = << >>
  /\ regressions_found = << >>
  /\ saved = FALSE

NotRun == [c \in Checks |-> ""]
InitValidator ==
  /\ validator = NewValidator
  /\ profile_info = NoProfile("")
  /\ info = NotRun
InitPolls ==
  /\ vmi_ip = ""
  /\ attempt = 0
  /\ returned = "none"
InitWrapper ==
  /\ vmi_was_hidden = FALSE
  /\ analyzer = "idle"
  /\ entry_disk = disk
InitSteps ==
  /\ pc = "main"
  /\ InitValidator
  /\ oc_calls = << >>
  /\ InitPolls
  /\ InitWrapper

InitAnalyze ==
  /\ prog = "analyze-performance"
  /\ disk \in AnalyzeDisks
  /\ files = NoFiles
  /\ InitOut
  /\ InitSteps

InitDetector ==
  /\ prog = "regression-detector"
  /\ disk \in DetectorDisks
  /\ files \in DetectorFiles
  /\ InitOut
  /\ InitSteps

InitVmiAnalyzer ==
  /\ prog = "vmi-analyzer"
  /\ disk \in VmiAnalyzerDisks
  /\ files = NoFiles
  /\ InitOut
  /\ InitSteps

\* Disks for the baseline analyzer: the baseline directory missing, empty,
\* or holding measurement files.
BaselineAnalyzerDisks ==
  { DiskOf(b, Present(<< >>), Present(<< >>)) :
      b \in {Missing} \cup UNION { DirsWith(k, { [kind |-> "pod", body |-> id] :
                                                  id \in {"bad", "base"} }) :
                                    k \in 0..MaxFiles } }
InitBaselineAnalyzer ==
  /\ prog = "baseline-analyzer"
  /\ disk \in BaselineAnalyzerDisks
  /\ files = NoFiles
  /\ InitOut
  /\ InitSteps

\* The tuning validator reads no file; main builds the validator and calls
\* run_validation, which starts with print_header.
NoDisk == [d \in Dirs |-> Missing]
InitTuningValidator ==
  /\ prog = "tuning-validator"
  /\ disk = NoDisk
  /\ files = NoFiles
  /\ InitOut
  /\ pc = "print_header"
  /\ InitValidator
  /\ oc_calls = << >>
  /\ InitPolls
  /\ InitWrapper

\* module04-cluster-health-check.py: test_pod_scheduling is entered with
\* the test pod not yet applied.
TempManifest == "/tmp/tmp.yaml"
InitHealthCheck ==
  /\ prog = "cluster-health-check"
  /\ disk = NoDisk
  /\ files = [p \in {TempManifest} |-> Absent]
  /\ InitOut
  /\ pc = "create_manifest"
  /\ InitValidator
  /\ oc_calls = << >>
  /\ InitPolls
  /\ InitWrapper

\* module05-vmi-network-tester.py: test_vmi_connectivity is entered with a
\* running VMI that has an address or none.
VmiAddresses == {"", "10.128.0.15"}
InitNetworkTester ==
  /\ prog = "vmi-network-tester"
  /\ disk = NoDisk
  /\ files = NoFiles
  /\ InitOut
  /\ pc = "test_vmi_connectivity"
  /\ InitValidator
  /\ oc_calls = << >>
  /\ vmi_ip \in VmiAddresses
  /\ attempt = 0
  /\ returned = "none"
  /\ InitWrapper

\* Disks for run_module_analysis(4): each directory missing or holding a
\* measurement file; the hidden name free, or left over from an earlier run
\* (empty or not).
OneFile(kind, id) == Present(<< File(kind, id, 1) >>)
ModuleAnalysisDisks ==
  { [d \in AllDirs |-> IF d = BaselineDir THEN b ELSE IF d = TunedDir THEN t
                        ELSE IF d = VmiDir THEN v ELSE h] :
      b \in {Missing, OneFile("pod", "base"), OneFile("pod", "zeroB")},
      t \in {Missing, OneFile("pod", "tuned")},
      v \in {Missing, Present(<< >>), OneFile("vmi", "vmi")},
      h \in {Missing, Present(<< >>), OneFile("vmi", "vmiB")} }
InitModuleAnalysis ==
  /\ prog = "module-analysis"
  /\ disk \in ModuleAnalysisDisks
  /\ files = NoFiles
  /\ InitOut
  /\ pc = "check"
  /\ InitValidator
  /\ oc_calls = << >>
  /\ InitPolls
  /\ InitWrapper

\* Disks for the comprehensive validator: each directory missing, empty, or
\* holding one file the validator looks for or one it does not.
Named(kind) == Present(<< File(kind, "base", 1) >>)
WorkshopDisks ==
  { DiskOf(b, t, v) :
      b \in {Missing, Present(<< >>), Named("baseline-workload"), Named("pod"), Named("netpol")},
      t \in {Missing, Present(<< >>), Named("netpol")},
      v \in {Missing, Present(<< >>), Named("vmi"), Named("netpol")} }
WorkshopSteps == WorkshopChecks \cup {"summary"}
InitWorkshopValidator ==
  /\ prog = "comprehensive-validator"
  /\ disk \in WorkshopDisks
  /\ files = NoFiles
  /\ InitOut
  /\ pc = "validate_module3_baseline"
  /\ validator = NewWorkshopValidator
  /\ profile_info = NoProfile("")
  /\ info = [c \in WorkshopSteps |-> ""]
  /\ oc_calls = << >>
  /\ InitPolls
  /\ InitWrapper

Init ==
  \/ InitWorkshopValidator
  \/ InitAnalyze
  \/ InitDetector
  \/ InitVmiAnalyzer
  \/ InitTuningValidator
  \/ InitHealthCheck
  \/ InitNetworkTester
  \/ InitBaselineAnalyzer
  \/ InitModuleAnalysis

\* ------------------------------------------- analyze-performance: main
\* An uncaught exception ends the interpreter with status 1.
ExitOf(exception) == IF exception = "none" THEN 0 ELSE 1

\* Lines 440-441: --single <dir>.
MainSingle(dir) ==
  /\ prog = "analyze-performance"
  /\ mode' = "single"
  /\ singles' = analyze_single_test(disk, dir)
  /\ table' = {}
  /\ headline' = NoHeadline
  /\ report' = NoReport
  /\ raised' = "none"
  /\ exit_code' = 0
  /\ UNCHANGED << prog, disk, files, args, detectorOut, stepVars >>

\* Lines 442-443: --compare.
MainCompare ==
  /\ prog = "analyze-performance"
  /\ LET c == compare_tests(disk, BaselineDir, TunedDir)
     IN /\ table' = c.rows
        /\ headline' = c.headline
        /\ raised' = c.raised
        /\ exit_code' = ExitOf(c.raised)
  /\ mode' = "compare"
  /\ singles' = {}
  /\ report' = NoReport
  /\ UNCHANGED << prog, disk, files, args, detectorOut, stepVars >>

\* Lines 444-445: --report <file>, always with the three directory names.
MainReport ==
  /\ prog = "analyze-performance"
  /\ LET r == generate_report(disk, BaselineDir, TunedDir, VmiDir)
     IN /\ report' = r
        /\ raised' = r.raised
        /\ exit_code' = ExitOf(r.raised)
  /\ mode' = "report"
  /\ singles' = {}
  /\ table' = {}
  /\ headline' = NoHeadline
  /\ UNCHANGED << prog, disk, files, args, detectorOut, stepVars >>

\* Lines 446-463: no mode flag.
MainDefault ==
  /\ prog = "analyze-performance"
  /\ LET both == disk[BaselineDir].exists /\ disk[TunedDir].exists
         c == compare_tests(disk, BaselineDir, TunedDir)
     IN /\ singles' = UNION { IF disk[d].exists THEN analyze_single_test(disk, d) ELSE {} :
                                d \in Dirs }
        /\ table' = IF both THEN c.rows ELSE {}
        /\ headline' = IF both THEN c.headline ELSE NoHeadline
        /\ raised' = IF both THEN c.raised ELSE "none"
        /\ exit_code' = IF both THEN ExitOf(c.raised) ELSE 0
  /\ mode' = "default"
  /\ report' = NoReport
  /\ UNCHANGED << prog, disk, files, args, detectorOut, stepVars >>

\* Lines 440-463: the branch main takes for a command line; single and
\* report are the option values, "" when the option is absent.
Dispatch(single, compare, report_file) ==
  IF single # "" THEN "single"
  ELSE IF compare THEN "compare"
  ELSE IF report_file # "" THEN "report"
  ELSE "default"

\* Lines 422-463: what one run of analyze-performance.py with the options
\* --single, --compare and --report gives.  In the default branch (lines
\* 446-463) each existing directory is analysed, and the two container sets
\* are compared when both exist.  SingleTargets is the set of directories
\* analyze_single_test is called for, ComparisonRun whether compare_tests
\* is called.
SingleTargets(d, branch, single) ==
  IF branch = "single" THEN {single}
  ELSE IF branch = "default" THEN {x \in Dirs : d[x].exists}
  ELSE {}
ComparisonRun(d, branch) ==
  branch = "compare" \/ (branch = "default" /\ d[BaselineDir].exists /\ d[TunedDir].exists)
NoComparison == [rows |-> {}, headline |-> NoHeadline, raised |-> "none"]
main(d, single, compare, report_file) ==
  [branch |-> Dispatch(single, compare, report_file),
   singles |-> UNION { analyze_single_test(d, x) :
                         x \in SingleTargets(d, Dispatch(single, compare, report_file), single) },
   comparison |-> IF ComparisonRun(d, Dispatch(single, compare, report_file))
                  THEN compare_tests(d, BaselineDir, TunedDir) ELSE NoComparison,
   report |-> IF Dispatch(single, compare, report_file) = "report"
              THEN generate_report(d, BaselineDir, TunedDir, VmiDir) ELSE NoReport]
\* The exception that ended the run, "none" when it ran to its end.
MainRaised(m) ==
  IF m.comparison.raised # "none" THEN m.comparison.raised ELSE m.report.raised

\* ---------------------------------------- module03-baseline-analyzer: main
\* Lines 82-113: check_baseline_metrics_exist.  The two expected file names
\* are stood for by a file matching the quantiles pattern.
check_baseline_metrics_exist(d, metrics_dir) ==
  d[metrics_dir].exists /\ Matching(d[metrics_dir].files, "pod") # << >>

\* Lines 128-132: the command line run_baseline_analysis builds.
ReportName == "module3-baseline-report.md"
BaselineCommand(metrics_dir, generate) ==
  [single |-> metrics_dir, compare |-> FALSE,
   report |-> IF generate THEN ReportName ELSE ""]

\* Lines 220-241 with run_baseline_analysis (116-144): the whole run.
BaselineAnalyzerMain(generate) ==
  /\ prog = "baseline-analyzer"
  /\ mode' = "baseline-analysis"
  /\ args' = [baseline |-> BaselineDir, threshold |-> 0, save_baseline |-> FALSE,
               report |-> generate]
  /\ IF ~check_baseline_metrics_exist(disk, BaselineDir)
     THEN /\ exit_code' = 1
          /\ UNCHANGED analyzeOut
     ELSE \E cmd \in {BaselineCommand(BaselineDir, generate)} :
          \E m \in {main(disk, cmd.single, cmd.compare, cmd.report)} :
             /\ singles' = m.singles
             /\ table' = m.comparison.rows
             /\ headline' = m.comparison.headline
             /\ report' = m.report
             /\ raised' = MainRaised(m)
             /\ exit_code' = ExitStatus(ExitOf(MainRaised(m)) = 0)
  /\ UNCHANGED << prog, disk, files, detectorOut, stepVars >>

\* ------------------------------------------- regression detector: main
\* Lines 348-368 with --save-baseline.
DetectorSave(baseline_arg, threshold, write_ok) ==
  /\ prog = "regression-detector"
  /\ LET r == run_detection(disk, files, BaselineFileOf(baseline_arg), threshold,
                            TRUE, write_ok)
     IN /\ current_metrics' = r.current_metrics
        /\ files' = r.files
        /\ baseline' = r.baseline
        /\ lines' = r.result.lines
        /\ regressions_found' = r.result.regressions_found
        /\ saved' = (r.success /\ write_ok)
        /\ exit_code' = ExitStatus(r.success)
  /\ mode' = "save-baseline"
  /\ args' = [baseline |-> baseline_arg, threshold |-> threshold, save_baseline |-> TRUE]
  /\ UNCHANGED << prog, disk, analyzeOut, stepVars >>

\* Lines 348-368 without --save-baseline.
DetectorDetect(baseline_arg, threshold) ==
  /\ prog = "regression-detector"
  /\ LET r == run_detection(disk, files, BaselineFileOf(baseline_arg), threshold,
                            FALSE, TRUE)
     IN /\ current_metrics' = r.current_metrics
        /\ files' = r.files
        /\ baseline' = r.baseline
        /\ lines' = r.result.lines
        /\ regressions_found' = r.result.regressions_found
        /\ saved' = FALSE
        /\ exit_code' = ExitStatus(r.success)
  /\ mode' = "detect"
  /\ args' = [baseline |-> baseline_arg, threshold |-> threshold, save_baseline |-> FALSE]
  /\ UNCHANGED << prog, disk, analyzeOut, stepVars >>

\* ------------------------------------------------------ VMI analyzer: main
\* module05-vmi-analyzer.py lines 275-299.
VmiAnalyzerMain ==
  /\ prog = "vmi-analyzer"
  /\ mode' = "vmi-analyze"
  /\ singles' = analyze_vmi_startup_phases(load_vmi_metrics(disk))
  /\ table' = {}
  /\ headline' = NoHeadline
  /\ report' = NoReport
  /\ raised' = "none"
  /\ exit_code' = 0
  /\ UNCHANGED << prog, disk, files, args, detectorOut, stepVars >>

\* ------------------------------------------------- tuning validator: steps
\* What the cluster can answer to each query of the validator.
NodeListings ==
  {Garbage, JsonItems(<< >>)}
  \cup { JsonItems(<< Node(t, u, FALSE, FALSE) >>) :
           t \in {"m5.4xlarge", "C5N.METAL"}, u \in {"ec2e1916"} }
  \cup { JsonItems(<< Node("", u, FALSE, FALSE) >>) : u \in {"ec2e1916", "4c4c4544"} }
BothCpus == [reserved |-> "0-1", isolated |-> "2-3"]
ReservedOnly == [reserved |-> "0-1"]
OnePage == << [count |-> 1, size |-> "1G"] >>
RtEnabled == [enabled |-> TRUE]
RtDisabled == [enabled |-> FALSE]
WorkerSelector == << << "node-role.kubernetes.io/worker-rt", "" >> >>
PerformanceProfiles ==
  { Profile(BothCpus, OnePage, RtDisabled, WorkerSelector),
    Profile(BothCpus, OnePage, EmptyDict, WorkerSelector),
    Profile(BothCpus, OnePage, RtEnabled, WorkerSelector),
    Profile(BothCpus, << >>, RtEnabled, << >>),
    Profile(ReservedOnly, << >>, RtDisabled, WorkerSelector) }
ProfileListings ==
  {NoOutput, Garbage, JsonItems(<< >>)} \cup { JsonItems(<< p >>) : p \in PerformanceProfiles }
McpListings ==
  {Garbage, JsonItems(<< Mcp(3, 3, 3, 0) >>), JsonItems(<< Mcp(3, 3, 3, 0), Mcp(2, 1, 1, 0) >>),
   JsonItems(<< Mcp(2, 1, 2, 1) >>)}
TargetNodeListings ==
  {Garbage, JsonItems(<< >>), JsonItems(<< Node("C5N.METAL", "4c4c4544", TRUE, TRUE) >>),
   JsonItems(<< Node("C5N.METAL", "4c4c4544", TRUE, FALSE),
                Node("C5N.METAL", "4c4c4544", FALSE, FALSE) >>)}
NodeNames == {NoOutput, Word("worker-0")}
\* /proc/cmdline with and without 'isolcpus'.
CommandLines == {NoOutput, Word("isolcpus"), Word("quiet")}
PodListings ==
  {Garbage, JsonItems(<< >>), JsonItems(<< "Running" >>), JsonItems(<< "Running", "Pending" >>)}
TunedListings ==
  {Garbage, JsonItems(<< >>), JsonItems(<< FALSE, TRUE >>), JsonItems(<< FALSE >>)}

\* One entry of the log of invocations: who issued which command, and
\* whether it gave the caller what it went on with (return code 0 and, for
\* a status poll, the phase 'Running').
Issued(check, cmd, ok) == [check |-> check, cmd |-> cmd, ok |-> ok]
Call(check, cmd, r) == Issued(check, cmd, r.success)
Record(check, outcome) ==
  /\ validator' = IF outcome.passed THEN Passed(validator, check) ELSE validator
  /\ info' = [info EXCEPT ![check] = outcome.status]

\* Lines 98-122: print_header, which detects the instance type.
PrintHeader ==
  /\ prog = "tuning-validator" /\ pc = "print_header"
  /\ \E process \in Processes(NodeListings) :
       LET r == run_oc_command(process)
       IN /\ validator' = detect_instance_type(validator, r)
          /\ oc_calls' = Append(oc_calls, Call("detect_instance_type", "get nodes", r))
  /\ pc' = "validate_performance_profile"
  /\ UNCHANGED << prog, metricVars, exit_code, profile_info, info, pollVars >>

\* Lines 621-626: step 1, and the early return when no profile is configured.
ValidatePerformanceProfile ==
  /\ prog = "tuning-validator" /\ pc = "validate_performance_profile"
  /\ \E process \in Processes(ProfileListings) :
       LET r == run_oc_command(process)
           p == validate_performance_profile(r)
       IN /\ profile_info' = p
          /\ Record("performance_profile", Outcome(p.status = "configured", p.status))
          /\ oc_calls' = Append(oc_calls, Call("performance_profile", "get performanceprofile", r))
          /\ pc' = IF p.status # "configured" THEN "print_summary" ELSE "validate_mcp_status"
  /\ UNCHANGED << prog, metricVars, exit_code, pollVars >>

\* Line 629: step 2.
ValidateMcpStatus ==
  /\ prog = "tuning-validator" /\ pc = "validate_mcp_status"
  /\ \E process \in Processes(McpListings) :
       LET r == run_oc_command(process)
       IN /\ Record("mcp_status", validate_mcp_status(r))
          /\ oc_calls' = Append(oc_calls, Call("mcp_status", "get mcp", r))
  /\ pc' = "validate_rt_kernel"
  /\ UNCHANGED << prog, metricVars, exit_code, profile_info, pollVars >>

\* Line 632: step 3.
ValidateRtKernel ==
  /\ prog = "tuning-validator" /\ pc = "validate_rt_kernel"
  /\ \E process \in Processes(TargetNodeListings) :
       LET r == run_oc_command(process)
       IN /\ Record("rt_kernel", validate_rt_kernel(validator, profile_info, r))
          /\ oc_calls' = IF RtKernelNeedsNodes(validator, profile_info)
                          THEN Append(oc_calls, Call("rt_kernel", "get nodes -l", r))
                          ELSE oc_calls
  /\ pc' = "validate_cpu_isolation"
  /\ UNCHANGED << prog, metricVars, exit_code, profile_info, pollVars >>

\* Line 635: step 4.
ValidateCpuIsolation ==
  /\ prog = "tuning-validator" /\ pc = "validate_cpu_isolation"
  /\ \E p1 \in Processes(NodeNames), p2 \in Processes(CommandLines) :
       LET lookup == run_oc_command(p1)
           debug == run_oc_command(p2)
           first == IF CpuConfigured(profile_info)
                    THEN << Call("cpu_isolation", "get nodes jsonpath", lookup) >> ELSE << >>
           second == IF CpuConfigured(profile_info) /\ CpuLookupGaveName(lookup)
                     THEN << Call("cpu_isolation", "debug node", debug) >> ELSE << >>
       IN /\ Record("cpu_isolation", validate_cpu_isolation(profile_info, lookup, debug))
          /\ oc_calls' = oc_calls \o first \o second
  /\ pc' = "validate_hugepages"
  /\ UNCHANGED << prog, metricVars, exit_code, profile_info, pollVars >>

\* Line 638: step 5.
ValidateHugepages ==
  /\ prog = "tuning-validator" /\ pc = "validate_hugepages"
  /\ \E process \in Processes(TargetNodeListings) :
       LET r == run_oc_command(process)
       IN /\ Record("hugepages", validate_hugepages(profile_info, r))
          /\ oc_calls' = IF profile_info.hugepages # << >>
                          THEN Append(oc_calls,
                                      Call("hugepages",
                                           IF profile_info.node_selector # << >>
                                           THEN "get nodes -l" ELSE "get nodes", r))
                          ELSE oc_calls
  /\ pc' = "validate_node_tuning"
  /\ UNCHANGED << prog, metricVars, exit_code, profile_info, pollVars >>

\* Line 641: step 6.
ValidateNodeTuning ==
  /\ prog = "tuning-validator" /\ pc = "validate_node_tuning"
  /\ \E p1 \in Processes(PodListings), p2 \in Processes(TunedListings) :
       LET pods == run_oc_command(p1)
           tuned == run_oc_command(p2)
       IN /\ Record("node_tuning", validate_node_tuning(pods, tuned))
          /\ oc_calls' = oc_calls \o << Call("node_tuning", "get pods", pods) >>
                            \o (IF TunedQueried(pods)
                                THEN << Call("node_tuning", "get tuned", tuned) >> ELSE << >>)
  /\ pc' = "print_summary"
  /\ UNCHANGED << prog, metricVars, exit_code, profile_info, pollVars >>

\* Lines 583-615, called at 626 / 644, and main's sys.exit at 704.
PrintSummary ==
  /\ prog = "tuning-validator" /\ pc = "print_summary"
  /\ exit_code' = ExitStatus(AllPassed(validator.validation_results))
  /\ pc' = "done"
  /\ UNCHANGED << prog, metricVars, validator, profile_info, info, oc_calls, pollVars >>

\* ------------------------------------------- pod-readiness polling loops
\* What 'oc get pod ... -o jsonpath={.status.phase}' can print.
Phases == {NoOutput, Word("Pending"), Word("Running"), Word("Failed")}
\* Any other command of the two functions: only its return code is used,
\* or whether the ping output holds 'bytes from'.
AnyOutput == {NoOutput, Word("done")}
PingOutputs == {NoOutput, Word("bytes from"), Word("100% packet loss")}
\* Lines 286 / 157 of the two files: success and output == 'Running'.
IsRunning(r) == r.success /\ r.output.text = "Running"
BoolText(b) == IF b THEN "True" ELSE "False"

\* module04-cluster-health-check.py line 280: range(12).
PodPollBudget == 12
\* module05-vmi-network-tester.py line 152: range(30).
VmiPollBudget == 30

\* Faulty variant: one pass more than the budget.
PollsLeftInclusive(i, budget) == i <= budget

\* for i in range(budget): another pass is made while i < budget.
PollsLeft(i, budget) == i < budget

\* Health check lines 264-268: NamedTemporaryFile(delete=False) creates the
\* manifest file, then 'import yaml' and yaml.dump run inside the with
\* block, before the try of line 271.  An exception of either leaves the
\* function with the file created and nothing, or only part, written.
ManifestOutcomes == {"written", "ModuleNotFoundError", "OSError"}
CreateManifest ==
  /\ prog = "cluster-health-check" /\ pc = "create_manifest"
  /\ \E outcome \in ManifestOutcomes :
       IF outcome = "written"
       THEN /\ files' = [files EXCEPT ![TempManifest] = OnDisk(EmptyObjectText)]
            /\ raised' = raised
            /\ pc' = "apply"
       ELSE /\ files' = [files EXCEPT ![TempManifest] = OnDisk(InvalidText)]
            /\ raised' = outcome
            /\ pc' = "done"
  /\ UNCHANGED << prog, disk, mode, args, table, headline, report, singles, detectorOut,
                  wrapperVars, exit_code, validatorVars, oc_calls, pollVars >>

\* Health check lines 315-317: the finally block.
Unlink(fs, path) == [fs EXCEPT ![path] = Absent]

\* Health check lines 272-275: apply the test pod.
ApplyTestPod ==
  /\ prog = "cluster-health-check" /\ pc = "apply"
  /\ \E process \in Processes(AnyOutput) :
       LET r == run_oc_command(process)
       IN /\ oc_calls' = Append(oc_calls, Call("test_pod_scheduling", "apply", r))
          /\ pc' = IF r.success THEN "poll" ELSE "done"
          /\ returned' = IF r.success THEN returned ELSE BoolText(FALSE)
          /\ files' = IF r.success THEN files ELSE Unlink(files, TempManifest)
  /\ UNCHANGED << prog, healthFrame, exit_code, validatorVars, vmi_ip, attempt >>

\* Health check lines 280-301: one pass of the loop.  On 'Running' the
\* node name is queried, the pod deleted and True returned; otherwise the
\* loop sleeps and goes on.
PollTestPod ==
  /\ prog = "cluster-health-check" /\ pc = "poll" /\ PollsLeft(attempt, PodPollBudget)
  /\ \E p1 \in Processes(Phases), p2 \in Processes(AnyOutput), p3 \in Processes(AnyOutput) :
       LET r == run_oc_command(p1)
           node == run_oc_command(p2)
           delete == run_oc_command(p3)
           poll == Issued("test_pod_scheduling", "get pod phase", IsRunning(r))
       IN IF IsRunning(r)
          THEN /\ oc_calls' = oc_calls \o << poll,
                                 Call("test_pod_scheduling", "get pod nodeName", node),
                                 Call("test_pod_scheduling", "delete pod", delete) >>
               /\ returned' = BoolText(TRUE)
               /\ pc' = "done"
               /\ attempt' = attempt
               /\ files' = Unlink(files, TempManifest)
          ELSE /\ oc_calls' = Append(oc_calls, poll)
               /\ returned' = returned
               /\ pc' = "poll"
               /\ attempt' = attempt + 1
               /\ files' = files
  /\ UNCHANGED << prog, healthFrame, exit_code, validatorVars, vmi_ip >>

\* Health check lines 303-313: the loop is exhausted.
TestPodNotReady ==
  /\ prog = "cluster-health-check" /\ pc = "poll" /\ ~PollsLeft(attempt, PodPollBudget)
  /\ \E p1 \in Processes(AnyOutput), p2 \in Processes(AnyOutput) :
       oc_calls' = oc_calls \o << Call("test_pod_scheduling", "describe pod", run_oc_command(p1)),
                                  Call("test_pod_scheduling", "delete pod", run_oc_command(p2)) >>
  /\ returned' = BoolText(FALSE)
  /\ pc' = "done"
  /\ files' = Unlink(files, TempManifest)
  /\ UNCHANGED << prog, healthFrame, exit_code, validatorVars, vmi_ip, attempt >>

\* Network tester lines 128-148: no address, or 'oc run' of the test pod.
RunTestPod ==
  /\ prog = "vmi-network-tester" /\ pc = "test_vmi_connectivity"
  /\ IF vmi_ip = ""
     THEN /\ returned' = BoolText(FALSE)
          /\ pc' = "done"
          /\ oc_calls' = oc_calls
     ELSE \E process \in Processes(AnyOutput) :
            LET r == run_oc_command(process)
            IN /\ oc_calls' = Append(oc_calls, Call("test_vmi_connectivity", "run", r))
               /\ pc' = IF r.success THEN "poll" ELSE "done"
               /\ returned' = IF r.success THEN returned ELSE BoolText(FALSE)
  /\ UNCHANGED << prog, metricVars, exit_code, validatorVars, vmi_ip, attempt >>

\* Network tester lines 152-160: one pass of the loop.
PollNetworkTestPod ==
  /\ prog = "vmi-network-tester" /\ pc = "poll" /\ PollsLeft(attempt, VmiPollBudget)
  /\ \E process \in Processes(Phases) :
       LET r == run_oc_command(process)
       IN /\ oc_calls' = Append(oc_calls,
                                  Issued("test_vmi_connectivity", "get pod phase", IsRunning(r)))
          /\ pc' = IF IsRunning(r) THEN "ping" ELSE "poll"
          /\ attempt' = IF IsRunning(r) THEN attempt ELSE attempt + 1
  /\ UNCHANGED << prog, metricVars, exit_code, validatorVars, vmi_ip, returned >>

\* Network tester lines 161-165: the else branch of the loop.
NetworkTestPodNotReady ==
  /\ prog = "vmi-network-tester" /\ pc = "poll" /\ ~PollsLeft(attempt, VmiPollBudget)
  /\ \E process \in Processes(AnyOutput) :
       oc_calls' = Append(oc_calls,
                          Call("test_vmi_connectivity", "delete pod", run_oc_command(process)))
  /\ returned' = BoolText(FALSE)
  /\ pc' = "done"
  /\ UNCHANGED << prog, metricVars, exit_code, validatorVars, vmi_ip, attempt >>

\* Network tester lines 167-190: ping the VMI, delete the pod, return.
PingVmi ==
  /\ prog = "vmi-network-tester" /\ pc = "ping"
  /\ \E p1 \in Processes(PingOutputs), p2 \in Processes(AnyOutput) :
       LET r == run_oc_command(p1)
       IN /\ oc_calls' = oc_calls \o << Call("test_vmi_connectivity", "exec ping", r),
                                         Call("test_vmi_connectivity", "delete pod",
                                              run_oc_command(p2)) >>
          /\ returned' = BoolText(r.success /\ r.output.text = "bytes from")
  /\ pc' = "done"
  /\ UNCHANGED << prog, metricVars, exit_code, validatorVars, vmi_ip, attempt >>

\* ------------------------------------- module-specific-analysis: module 4

\* Path.rename: os.rename of a directory.  A target that exists and is not
\* empty makes it raise OSError and leaves the disk as it was; an empty
\* target directory is replaced.
CanRename(d, src, dst) == ~d[dst].exists \/ d[dst].files = << >>
Rename(d, src, dst) == [d EXCEPT ![dst] = d[src], ![src] = Missing]

\* Faulty variant: the VMI directory is left in place.
HidesVmiNever(vmi_exists) == FALSE

\* Line 42: the VMI directory is hidden when it exists.
HidesVmi(vmi_exists) == vmi_exists

\* Faulty variant: the restore placed after the try block, reached only
\* when nothing was raised.
RestoresOnReturnOnly(was_hidden, hidden_exists, exception) ==
  was_hidden /\ hidden_exists /\ exception = "none"

\* Lines 58-62: the finally block restores whatever was raised.
RestoresVmi(was_hidden, hidden_exists, exception) == was_hidden /\ hidden_exists

\* Lines 29-35: the two precondition checks.
CheckModule4 ==
  /\ prog = "module-analysis" /\ pc = "check"
  /\ IF ~disk[BaselineDir].exists \/ ~disk[TunedDir].exists
     THEN returned' = BoolText(FALSE) /\ pc' = "done"
     ELSE returned' = returned /\ pc' = "hide"
  /\ UNCHANGED << prog, disk, files, mode, args, analyzeOut, detectorOut, exit_code,
                  validatorVars, oc_calls, vmi_ip, attempt, wrapperVars >>

\* Lines 38-45: hide the VMI directory; a rename that raises ends the call.
HideVmiDir ==
  /\ prog = "module-analysis" /\ pc = "hide"
  /\ IF ~HidesVmi(disk[VmiDir].exists)
     THEN /\ pc' = "launch"
          /\ UNCHANGED << disk, vmi_was_hidden, raised >>
     ELSE IF CanRename(disk, VmiDir, HiddenDir)
     THEN /\ disk' = Rename(disk, VmiDir, HiddenDir)
          /\ vmi_was_hidden' = TRUE
          /\ pc' = "launch"
          /\ raised' = raised
     ELSE /\ raised' = "OSError"
          /\ pc' = "done"
          /\ UNCHANGED << disk, vmi_was_hidden >>
  /\ UNCHANGED << prog, files, mode, args, table, headline, report, singles, detectorOut,
                  exit_code, validatorVars, oc_calls, pollVars, analyzer, entry_disk >>

\* Line 56: subprocess.run starts the analyzer, or raises when python3 or
\* the working directory cannot be used.
LaunchAnalyzer ==
  /\ prog = "module-analysis" /\ pc = "launch"
  /\ \E started \in BOOLEAN :
       IF started
       THEN analyzer' = "running" /\ pc' = "wait" /\ raised' = raised
       ELSE analyzer' = analyzer /\ pc' = "finally" /\ raised' = "FileNotFoundError"
  /\ UNCHANGED << prog, disk, files, mode, args, table, headline, report, singles,
                  detectorOut, exit_code, validatorVars, oc_calls, pollVars,
                  vmi_was_hidden, entry_disk >>

\* Line 56: the analyzer runs to its end on the disk as it is (lines 49-54:
\* no mode option, so the default branch) and subprocess.run returns.
AnalyzerExits ==
  /\ prog = "module-analysis" /\ pc = "wait" /\ analyzer = "running"
  /\ \E m \in {main(disk, "", FALSE, "")} :
        /\ singles' = m.singles
        /\ table' = m.comparison.rows
        /\ headline' = m.comparison.headline
        /\ report' = m.report
        /\ exit_code' = ExitOf(MainRaised(m))
  /\ analyzer' = "finished"
  /\ pc' = "finally"
  /\ UNCHANGED << prog, disk, files, mode, args, raised, detectorOut, validatorVars, oc_calls,
                  pollVars, vmi_was_hidden, entry_disk >>

\* Line 56: an interrupt while waiting; subprocess.run kills the analyzer
\* and re-raises.
AnalyzerInterrupted ==
  /\ prog = "module-analysis" /\ pc = "wait" /\ analyzer = "running"
  /\ analyzer' = "killed"
  /\ raised' = "KeyboardInterrupt"
  /\ pc' = "finally"
  /\ UNCHANGED << prog, disk, files, mode, args, table, headline, report, singles,
                  detectorOut, exit_code, validatorVars, oc_calls, pollVars,
                  vmi_was_hidden, entry_disk >>

\* Lines 58-64: the finally block, then the return or the pending exception.
RestoreVmiDir ==
  /\ prog = "module-analysis" /\ pc = "finally"
  /\ IF ~RestoresVmi(vmi_was_hidden, disk[HiddenDir].exists, raised)
     THEN disk' = disk /\ raised' = raised
     ELSE IF CanRename(disk, HiddenDir, VmiDir)
     THEN disk' = Rename(disk, HiddenDir, VmiDir) /\ raised' = raised
     ELSE disk' = disk /\ raised' = "OSError"
  /\ returned' = IF raised' = "none" THEN BoolText(exit_code = 0) ELSE returned
  /\ pc' = "done"
  /\ UNCHANGED << prog, files, mode, args, table, headline, report, singles, detectorOut,
                  exit_code, validatorVars, oc_calls, vmi_ip, attempt, wrapperVars >>

\* ------------------------------------- comprehensive validator: the steps
\* What each step leaves alone: the disk and everything of the other
\* scripts.
workshopFrame == << prog, metricVars, profile_info, pollVars >>
Concluded(check, outcome) ==
  /\ validator' = outcome.w
  /\ info' = [info EXCEPT ![check] = outcome.status]

\* Outputs of the profile listing, the VMI listing and the health listings.
WorkshopProfileListings == {NoOutput, Garbage, JsonItems(<< >>), JsonItems(<< TRUE >>),
                            JsonItems(<< FALSE >>)}
HealthListings == {Garbage, JsonItems(<< >>), JsonItems(<< TRUE >>),
                   JsonItems(<< TRUE, FALSE >>)}

\* Line 439.
ValidateModule3Baseline ==
  /\ prog = "comprehensive-validator" /\ pc = "validate_module3_baseline"
  /\ Concluded("module3_baseline", validate_module3_baseline(validator, disk))
  /\ pc' = "validate_module4_tuning"
  /\ UNCHANGED << workshopFrame, exit_code, oc_calls >>

\* Line 440; an uncaught KeyError ends the interpreter with status 1.
ValidateModule4Tuning ==
  /\ prog = "comprehensive-validator" /\ pc = "validate_module4_tuning"
  /\ \E process \in Processes(WorkshopProfileListings) :
     \E r \in {run_oc_command(process)} :
       /\ oc_calls' = Append(oc_calls, Call("module4_tuning", "get performanceprofile", r))
       /\ IF ProfileKeyError(r)
          THEN /\ raised' = "KeyError"
               /\ exit_code' = 1
               /\ pc' = "done"
               /\ UNCHANGED << validator, info >>
          ELSE /\ Concluded("module4_tuning", validate_module4_tuning(validator, disk, r))
               /\ pc' = "validate_module5_vmi"
               /\ UNCHANGED << raised, exit_code >>
  /\ UNCHANGED << prog, disk, files, mode, args, table, headline, report, singles,
                  detectorOut, wrapperVars, profile_info, pollVars >>

\* Line 441.
ValidateModule5Vmi ==
  /\ prog = "comprehensive-validator" /\ pc = "validate_module5_vmi"
  /\ Concluded("module5_vmi", validate_module5_vmi(validator, disk))
  /\ IF VmiQueried(disk)
     THEN \E process \in Processes(HealthListings) :
            oc_calls' = Append(oc_calls, Call("module5_vmi", "get vmi", run_oc_command(process)))
     ELSE oc_calls' = oc_calls
  /\ pc' = "validate_module5_network"
  /\ UNCHANGED << workshopFrame, exit_code >>

\* Line 442.
ValidateModule5Network ==
  /\ prog = "comprehensive-validator" /\ pc = "validate_module5_network"
  /\ Concluded("module5_network", validate_module5_network(validator, disk))
  /\ pc' = "validate_cluster_health"
  /\ UNCHANGED << workshopFrame, exit_code, oc_calls >>

\* Line 443.
ValidateClusterHealth ==
  /\ prog = "comprehensive-validator" /\ pc = "validate_cluster_health"
  /\ \E p1 \in Processes(HealthListings), p2 \in Processes(HealthListings),
        p3 \in Processes(HealthListings) :
     \E nodes \in {run_oc_command(p1)}, operators \in {run_oc_command(p2)},
        pods \in {run_oc_command(p3)} :
       /\ Concluded("cluster_health", validate_cluster_health(validator, nodes, operators, pods))
       /\ oc_calls' = oc_calls \o << Call("cluster_health", "get nodes", nodes),
                                      Call("cluster_health", "get clusteroperator", operators),
                                      Call("cluster_health", "get pods", pods) >>
  /\ pc' = "calculate_improvements"
  /\ UNCHANGED << workshopFrame, exit_code >>

\* Line 444.
CalculateImprovements ==
  /\ prog = "comprehensive-validator" /\ pc = "calculate_improvements"
  /\ Concluded("performance_improvement", calculate_improvements(validator))
  /\ pc' = "print_summary"
  /\ UNCHANGED << workshopFrame, exit_code, oc_calls >>

\* Lines 447-451 and 514-523: print_summary, then main's sys.exit.
WorkshopSummary ==
  /\ prog = "comprehensive-validator" /\ pc = "print_summary"
  /\ info' = [info EXCEPT !["summary"] = Verdict(validator.validation_results)]
  /\ exit_code' = WorkshopExit(validator.validation_results)
  /\ pc' = "done"
  /\ UNCHANGED << workshopFrame, validator, oc_calls >>

Next ==
  \/ \E dir \in Dirs : MainSingle(dir)
  \/ MainCompare
  \/ MainReport
  \/ MainDefault
  \/ \E baseline_arg \in {"", CustomBaselinePath}, threshold \in Thresholds, write_ok \in BOOLEAN :
        DetectorSave(baseline_arg, threshold, write_ok)
  \/ \E baseline_arg \in {"", CustomBaselinePath}, threshold \in Thresholds :
        DetectorDetect(baseline_arg, threshold)
  \/ VmiAnalyzerMain
  \/ PrintHeader
  \/ ValidatePerformanceProfile
  \/ ValidateMcpStatus
  \/ ValidateRtKernel
  \/ ValidateCpuIsolation
  \/ ValidateHugepages
  \/ ValidateNodeTuning
  \/ PrintSummary
  \/ ApplyTestPod
  \/ PollTestPod
  \/ TestPodNotReady
  \/ RunTestPod
  \/ PollNetworkTestPod
  \/ NetworkTestPodNotReady
  \/ PingVmi
  \/ \E generate \in BOOLEAN : BaselineAnalyzerMain(generate)
  \/ CreateManifest
  \/ ValidateModule3Baseline
  \/ ValidateModule4Tuning
  \/ ValidateModule5Vmi
  \/ ValidateModule5Network
  \/ ValidateClusterHealth
  \/ CalculateImprovements
  \/ WorkshopSummary
  \/ CheckModule4
  \/ HideVmiDir
  \/ LaunchAnalyzer
  \/ AnalyzerExits
  \/ AnalyzerInterrupted
  \/ RestoreVmiDir

Spec == Init /\ [][Next]_vars

\* ================================================================ claims
PodQuantiles(dir) == load_metrics(disk, dir).pod_latency_quantiles
BothLoaded == disk[BaselineDir].exists /\ disk[TunedDir].exists
Compared == mode \in {"compare", "default"} /\ BothLoaded
Reported == mode = "report" /\ BothLoaded
InBoth(c) == c \in DOMAIN PodQuantiles(BaselineDir) /\ c \in DOMAIN PodQuantiles(TunedDir)
HasRow(rows, c, m) == \E row \in rows : row.condition = c /\ row.metric = m

\* No record of condition c in the files of dir carries field m.
FieldAbsent(dir, c, m) ==
  \A i \in DOMAIN disk[dir].files :
    LET data == Body(disk[dir].files[i].body)
    IN data.shape = "list" =>
         \A k \in DOMAIN data.items :
           data.items[k].quantileName = c => m \notin DOMAIN data.items[k].fields

\* C1: for every condition in both metric sets and every compared field,
\* the terminal table (P50, P95, P99, avg) and the markdown table (P99, avg)
\* hold a row exactly when the baseline value is greater than 0; a field
\* absent from every baseline record of the condition counts as 0, no row.
C1_RowIffBaselinePositive ==
  /\ Compared =>
       \A c \in DOMAIN PodQuantiles(BaselineDir), m \in {"P50", "P95", "P99", "avg"} :
         InBoth(c) =>
           /\ HasRow(table, c, m) <=> PodQuantiles(BaselineDir)[c][m] > 0
           /\ FieldAbsent(BaselineDir, c, m) => ~HasRow(table, c, m)
  /\ Reported =>
       \A c \in DOMAIN PodQuantiles(BaselineDir), m \in {"P99", "avg"} :
         InBoth(c) =>
           /\ HasRow(report.rows, c, m) <=> PodQuantiles(BaselineDir)[c][m] > 0
           /\ FieldAbsent(BaselineDir, c, m) => ~HasRow(report.rows, c, m)

\* C1 witness: a comparison whose baseline record of a common condition has
\* one field absent (no row), one field present and positive (a row).
C1_Witness ==
  /\ mode = "compare" /\ BothLoaded
  /\ \E c \in DOMAIN PodQuantiles(BaselineDir) :
       /\ InBoth(c)
       /\ FieldAbsent(BaselineDir, c, "P50") /\ ~HasRow(table, c, "P50")
       /\ PodQuantiles(BaselineDir)[c]["P99"] > 0 /\ HasRow(table, c, "P99")

\* C2 (as claimed): compare_tests never raises, also when the baseline
\* 'Ready' record has P99 = 0 or avg = 0.
C2_CompareNeverRaises ==
  mode \in {"compare", "default"} => raised = "none"

\* C3: every row of either table carries the values of its condition and
\* field, and improvement = (baseline - tuned) / baseline * 100; so it is
\* positive, zero or negative as tuned is below, equal to or above baseline.
RowIsExact(row) ==
  /\ InBoth(row.condition)
  /\ row.baseline = PodQuantiles(BaselineDir)[row.condition][row.metric]
  /\ row.tuned = PodQuantiles(TunedDir)[row.condition][row.metric]
  /\ row.improvement.den = row.baseline /\ row.baseline > 0
  /\ row.improvement.num = (row.baseline - row.tuned) * 100
  /\ row.improvement.num > 0 <=> row.tuned < row.baseline
  /\ row.improvement.num = 0 <=> row.tuned = row.baseline
  /\ row.improvement.num < 0 <=> row.tuned > row.baseline
C3_ChangePctFormula ==
  (mode \in {"compare", "default", "report"}) =>
     \A row \in table \cup report.rows : RowIsExact(row)

\* C3 witness: one table with an improved, an unchanged and a degraded row.
C3_Witness ==
  /\ mode = "compare"
  /\ \E row \in table : row.tuned < row.baseline /\ row.improvement.num > 0
  /\ \E row \in table : row.tuned = row.baseline /\ row.improvement.num = 0
  /\ \E row \in table : row.tuned > row.baseline /\ row.improvement.num < 0

\* C4: every row of the terminal table has exactly one of the four labels:
\* Excellent iff change > 20, Better iff 5 < change <= 20, Similar iff
\* -5 < change <= 5, Worse iff change <= -5; baseline 10000 against tuned
\* 5000 is a change of 50, Excellent.
Above(x, k) == x.num > k * x.den
C4_ImprovementPolicy ==
  \A row \in table :
    /\ row.status \in {"Excellent", "Better", "Similar", "Worse"}
    /\ row.status = "Excellent" <=> Above(row.improvement, 20)
    /\ row.status = "Better" <=> (Above(row.improvement, 5) /\ ~Above(row.improvement, 20))
    /\ row.status = "Similar" <=> (Above(row.improvement, -5) /\ ~Above(row.improvement, 5))
    /\ row.status = "Worse" <=> ~Above(row.improvement, -5)
    /\ (row.baseline = 10000 /\ row.tuned = 5000) =>
         (row.improvement.num = 50 * row.improvement.den /\ row.status = "Excellent")

\* C4 witness: one table with a row on each cut point (20, 5, -5) and a row
\* above the first.
C4_Witness ==
  /\ mode = "compare"
  /\ \E row \in table : row.improvement.num = 20 * row.improvement.den /\ row.status = "Better"
  /\ \E row \in table : row.improvement.num = 5 * row.improvement.den /\ row.status = "Similar"
  /\ \E row \in table : row.improvement.num = (-5) * row.improvement.den /\ row.status = "Worse"
  /\ \E row \in table : row.improvement.num = 50 * row.improvement.den /\ row.status = "Excellent"

\* The (metric type, percentile) pairs of a sequence of lines or entries.
PairsOf(seq) == { << seq[i].metric, seq[i].percentile >> : i \in DOMAIN seq }
OverThreshold(line) == line.regression.num > args.threshold * line.regression.den

\* C5: in a detection run with threshold T, a comparison is labelled
\* REGRESSION and is in regressions_found exactly when its percentage is
\* strictly greater than T; with T = 10, 15 is a regression and 5 is OK.
C5_RegressionIffAboveThreshold ==
  mode = "detect" =>
    /\ \A i \in DOMAIN lines :
         /\ lines[i].regression.den > 0
         /\ lines[i].status = "REGRESSION" <=> OverThreshold(lines[i])
         /\ << lines[i].metric, lines[i].percentile >> \in PairsOf(regressions_found)
              <=> OverThreshold(lines[i])
         /\ args.threshold = 10 =>
              /\ lines[i].regression.num = 15 * lines[i].regression.den
                   => lines[i].status = "REGRESSION"
              /\ lines[i].regression.num = 5 * lines[i].regression.den
                   => lines[i].status = "OK"
    /\ PairsOf(regressions_found) \subseteq PairsOf(lines)

\* C5 witness: a detection run with T = 10 that compared a change of 5
\* (OK), of exactly 10 (no regression) and of 15 (regression, recorded).
C5_Witness ==
  /\ mode = "detect" /\ args.threshold = 10
  /\ \E i \in DOMAIN lines :
       lines[i].regression.num = 5 * lines[i].regression.den /\ lines[i].status = "OK"
  /\ \E i \in DOMAIN lines :
       /\ lines[i].regression.num = 10 * lines[i].regression.den
       /\ lines[i].status # "REGRESSION"
       /\ << lines[i].metric, lines[i].percentile >> \notin PairsOf(regressions_found)
  /\ \E i \in DOMAIN lines :
       /\ lines[i].regression.num = 15 * lines[i].regression.den
       /\ lines[i].status = "REGRESSION"
       /\ << lines[i].metric, lines[i].percentile >> \in PairsOf(regressions_found)

\* C6 (as claimed): compare_metrics skips a pair whose baseline value is 0:
\* no line is printed and no percentage is produced for it.
C6_ZeroBaselineSkipped ==
  mode = "detect" => \A i \in DOMAIN lines : lines[i].baseline # 0

\* C7 (as claimed): after a --save-baseline run that stored metrics M, a
\* detection run with the same configuration loads a baseline whose
\* 'metrics' mapping is M.
C7_BaselineRoundTrip ==
  [][ ( /\ mode = "save-baseline" /\ saved
        /\ mode' = "detect"
        /\ args'.baseline = args.baseline
        /\ args'.threshold = args.threshold )
      => ( baseline'.loaded /\ baseline'.metrics = current_metrics ) ]_vars

\* C8: a condition (analyze-performance) or metric type (detector) that
\* only one of the two metric sets holds has no row in either table, no
\* part in the headline, no comparison line and no entry in
\* regressions_found.
InBothTypes(t) == t \in DOMAIN current_metrics /\ t \in DOMAIN baseline.metrics
C8_IntersectionOnly ==
  /\ \A row \in table \cup report.rows : InBoth(row.condition)
  /\ headline.printed => InBoth("Ready")
  /\ \A i \in DOMAIN lines : InBothTypes(lines[i].metric)
  /\ \A i \in DOMAIN regressions_found : InBothTypes(regressions_found[i].metric)

\* C8 witness: a comparison that printed rows while the baseline holds a
\* condition with positive values that the tuned set lacks, and the tuned
\* set one that the baseline lacks.
C8_Witness ==
  /\ mode = "compare" /\ BothLoaded /\ table # {}
  /\ \E c \in DOMAIN PodQuantiles(BaselineDir) :
       /\ c \notin DOMAIN PodQuantiles(TunedDir)
       /\ PodQuantiles(BaselineDir)[c]["P99"] > 0
       /\ ~HasRow(table, c, "P99")
  /\ \E c \in DOMAIN PodQuantiles(TunedDir) : c \notin DOMAIN PodQuantiles(BaselineDir)

\* C9: a detection run exits 0 exactly when current metrics were found, the
\* baseline file held a (non-empty) JSON object, and no regression was
\* recorded; it exits 1 otherwise.
CurrentFound == DOMAIN load_current_metrics(disk) # {}
BaselineOnDisk ==
  LET f == files[BaselineFileOf(args.baseline)]
  IN f.exists /\ f.text.valid /\ f.text.keys # {}
C9_DetectionExitCode ==
  mode = "detect" =>
    /\ exit_code \in {0, 1}
    /\ exit_code = 0 <=> (CurrentFound /\ BaselineOnDisk /\ regressions_found = << >>)
    /\ (~CurrentFound \/ ~BaselineOnDisk) => lines = << >>

\* C9 witness: a detection run that recorded a regression and exits 1.
C9_Witness ==
  /\ mode = "detect" /\ CurrentFound /\ BaselineOnDisk
  /\ regressions_found # << >> /\ exit_code = 1

\* C10 (as claimed): generate_report, called with the three directory
\* names, completes and writes the report whatever directories are missing.
C10_ReportNeverRaises ==
  mode = "report" => (raised = "none" /\ report.finished /\ exit_code = 0)

\* The named conditions of the files of dir that match the pattern of kind
\* and hold a JSON list.
GoodConditions(dir, kind) ==
  UNION { LET file == disk[dir].files[i]
              data == Body(file.body)
          IN IF file.kind = kind /\ data.shape = "list"
             THEN { data.items[k].quantileName : k \in DOMAIN data.items } \ {""}
             ELSE {} :
          i \in DOMAIN disk[dir].files }
Analyzed(dir, kind, c) ==
  \E e \in singles : e.dir = dir /\ e.kind = kind /\ e.condition = c

\* C11: load_metrics catches a file that fails to parse (invalid JSON or a
\* JSON object instead of a list) and goes on: the run does not raise and
\* every condition of every other matching file is in the loaded result,
\* which analyze_single_test prints one status line for.
C11_FailingFileSkipped ==
  /\ mode = "single" =>
       /\ raised = "none" /\ exit_code = 0
       /\ \A e \in singles : \A kind \in {"pod", "vmi"} :
            \A c \in GoodConditions(e.dir, kind) : Analyzed(e.dir, kind, c)
  /\ mode = "default" =>
       \A d \in Dirs : disk[d].exists =>
         \A kind \in {"pod", "vmi"} :
           \A c \in GoodConditions(d, kind) : Analyzed(d, kind, c)

\* C11 witness: a directory whose first matching file fails to parse and
\* whose second holds a condition, which was loaded and analysed.
C11_Witness ==
  /\ mode = "default"
  /\ \E d \in Dirs :
       /\ disk[d].exists /\ Len(disk[d].files) >= 2
       /\ disk[d].files[1].kind = "pod" /\ Body(disk[d].files[1].body).shape # "list"
       /\ disk[d].files[2].kind = "pod" /\ Body(disk[d].files[2].body).shape = "list"
       /\ \E c \in GoodConditions(d, "pod") : Analyzed(d, "pod", c)

\* The conditions the files of dir matching kind hold, file by file, and
\* the conditions an analysis printed for dir.
ConditionsOfFile(file) ==
  LET data == Body(file.body)
  IN IF data.shape = "list"
     THEN { data.items[k].quantileName : k \in DOMAIN data.items } \ {""}
     ELSE {}
MatchingIn(dir, kind) == { i \in DOMAIN disk[dir].files : disk[dir].files[i].kind = kind }
LoadedConditions(dir, kind) == { e.condition : e \in { x \in singles : x.dir = dir /\ x.kind = kind } }
FromOneFile(dir, kind) ==
  \/ LoadedConditions(dir, kind) = {}
  \/ \E i \in MatchingIn(dir, kind) :
       LoadedConditions(dir, kind) \subseteq ConditionsOfFile(disk[dir].files[i])

\* C12 (as claimed): when several files match the glob of one run, the
\* loaded metric set comes from exactly one of them: analyze-performance's
\* load_metrics, the VMI analyzer's load_vmi_metrics and the detector's
\* load_current_metrics hold no condition found only in another file.
C12_OneFilePerRun ==
  /\ mode \in {"single", "default", "vmi-analyze"} =>
       \A d \in Dirs, kind \in {"pod", "vmi"} : FromOneFile(d, kind)
  /\ mode \in {"detect", "save-baseline"} =>
       \A t \in DOMAIN current_metrics :
         \E i \in DOMAIN Glob(disk, t) :
           current_metrics[t] = extract_latency_metrics(Body(Glob(disk, t)[i].body))

\* C13 (as claimed): in the tuning validator, a check one of whose 'oc'
\* invocations failed or timed out is not recorded as passed in
\* validation_results.
C13_FailedCallNotPassed ==
  prog = "tuning-validator" =>
    \A i \in DOMAIN oc_calls :
      (oc_calls[i].check \in Checks /\ ~oc_calls[i].ok)
        => ~validator.validation_results[oc_calls[i].check]

\* The records of a kube-burner measurement list that carry a condition
\* name and the three percentiles.
DocumentedRecords(data) ==
  IF data.shape # "list" THEN {}
  ELSE { k \in DOMAIN data.items :
           /\ data.items[k].quantileName # ""
           /\ {"P50", "P95", "P99"} \subseteq DOMAIN data.items[k].fields }

\* C14 (as claimed): when the latest file of a metric type is a JSON array
\* of records with a condition name in quantileName and numeric P50, P95,
\* P99, the metric type is in the current metrics and its p50, p95, p99 are
\* the P50, P95, P99 of one of the records.
C14_DocumentedFormatConsumed ==
  mode \in {"detect", "save-baseline"} =>
    \A i \in DOMAIN MetricTypeOrder :
      LET t == MetricTypeOrder[i]
          found == Glob(disk, t)
          data == Body(Latest(found).body)
      IN (found # << >> /\ DocumentedRecords(data) # {}) =>
           /\ t \in DOMAIN current_metrics
           /\ {"p50", "p95", "p99"} \subseteq DOMAIN current_metrics[t]
           /\ \E k \in DocumentedRecords(data) :
                /\ current_metrics[t]["p50"] = data.items[k].fields["P50"]
                /\ current_metrics[t]["p95"] = data.items[k].fields["P95"]
                /\ current_metrics[t]["p99"] = data.items[k].fields["P99"]

\* C15 (as claimed): no 'oc' invocation is retried: once an invocation
\* has failed, timed out or returned an unwanted result, its caller does
\* not issue the same invocation again in the run; the pod-status queries
\* of test_pod_scheduling and test_vmi_connectivity included.
C15_NoRetry ==
  \A i \in DOMAIN oc_calls, j \in DOMAIN oc_calls :
    (i < j /\ oc_calls[i].check = oc_calls[j].check /\ oc_calls[i].cmd = oc_calls[j].cmd)
      => oc_calls[i].ok

\* C16 (as claimed): module03-baseline-analyzer run with --report, its
\* metrics found, has analyze-performance call generate_report and write
\* the named report file.
C16_BaselineReportWritten ==
  (mode = "baseline-analysis" /\ args.report
     /\ check_baseline_metrics_exist(disk, BaselineDir))
    => report.opened

\* C17: in run_module_analysis(4) the analyzer runs with the VMI data out
\* of sight: while the analyzer subprocess runs, collected-metrics-vmi does
\* not exist under its name (it was renamed before the start and is not
\* restored before the end), and what the analyzer printed holds no VMI
\* directory entry.
C17_AnalyzerRunsWithoutVmi ==
  prog = "module-analysis" =>
    /\ analyzer = "running" => ~disk[VmiDir].exists
    /\ analyzer = "finished" => \A e \in singles : e.dir # VmiDir
    /\ (analyzer # "idle" /\ entry_disk[VmiDir].exists) => vmi_was_hidden

\* C17 witness: the analyzer running, the VMI directory that existed on
\* entry now under its hidden name.
C17_Witness ==
  /\ prog = "module-analysis" /\ analyzer = "running"
  /\ entry_disk[VmiDir].exists /\ entry_disk[VmiDir].files # << >>
  /\ ~disk[VmiDir].exists /\ disk[HiddenDir] = entry_disk[VmiDir]

\* C18: whenever run_module_analysis(4) ends after its precondition checks,
\* by a return or by an exception, collected-metrics-vmi exists exactly
\* when it existed on entry, with the content it had, and no hidden
\* directory made by the call is left.
PreconditionsHeld == entry_disk[BaselineDir].exists /\ entry_disk[TunedDir].exists
C18_VmiRestored ==
  (prog = "module-analysis" /\ pc = "done" /\ PreconditionsHeld) =>
    /\ disk[VmiDir].exists <=> entry_disk[VmiDir].exists
    /\ disk[VmiDir] = entry_disk[VmiDir]
    /\ disk[HiddenDir].exists => (~vmi_was_hidden /\ entry_disk[HiddenDir].exists)

\* C18 witness: the call ended by an exception raised while the analyzer
\* ran, after it had hidden a VMI directory, which is back in place.
C18_Witness ==
  /\ prog = "module-analysis" /\ pc = "done" /\ PreconditionsHeld
  /\ vmi_was_hidden /\ raised = "KeyboardInterrupt" /\ analyzer = "killed"
  /\ disk[VmiDir].exists /\ disk[VmiDir] = entry_disk[VmiDir]
  /\ ~disk[HiddenDir].exists

\* C19: on an instance detected as virtualized the RT-kernel check of the
\* tuning validator passes exactly when the Performance Profile has the
\* real-time kernel disabled and fails when it has it enabled; an instance
\* detection whose cluster query failed leaves the instance virtualized.
RtKernelChecked == prog = "tuning-validator" /\ info["rt_kernel"] # ""
DetectionFailed ==
  /\ prog = "tuning-validator" /\ oc_calls # << >>
  /\ oc_calls[1].check = "detect_instance_type" /\ ~oc_calls[1].ok
C19_RtKernelOnVirtualized ==
  /\ DetectionFailed => ~validator.is_metal_instance
  /\ (RtKernelChecked /\ ~validator.is_metal_instance) =>
       /\ validator.validation_results["rt_kernel"] <=> ~profile_info.rt_kernel
       /\ info["rt_kernel"] = IF profile_info.rt_kernel THEN "misconfigured"
                              ELSE "correctly_disabled"

\* C19 witness: the detection query failed, the profile enables the
\* real-time kernel, and the RT-kernel check has failed.
C19_Witness ==
  /\ DetectionFailed /\ RtKernelChecked
  /\ profile_info.rt_kernel
  /\ ~validator.validation_results["rt_kernel"]
  /\ info["rt_kernel"] = "misconfigured"

\* C20: the tuning validator exits 0 exactly when all six entries of
\* validation_results are True at the end of run_validation; without a
\* configured Performance Profile none of the other five checks runs (no
\* result, no oc call of theirs) and the exit code is not 0.
OtherChecks == Checks \ {"performance_profile"}
C20_ValidatorExitCode ==
  (prog = "tuning-validator" /\ pc = "done") =>
    /\ exit_code = 0 <=> \A c \in Checks : validator.validation_results[c]
    /\ exit_code \in {0, 1}
    /\ profile_info.status # "configured" =>
         /\ exit_code # 0
         /\ \A c \in OtherChecks : info[c] = "" /\ ~validator.validation_results[c]
         /\ \A i \in DOMAIN oc_calls : oc_calls[i].check \notin OtherChecks

\* C20 witness: a finished validation with all six checks passed, exit 0.
C20_Witness ==
  /\ prog = "tuning-validator" /\ pc = "done" /\ exit_code = 0
  /\ \A c \in Checks : validator.validation_results[c]
  /\ \A c \in Checks : info[c] # ""

\* C22: the regression detector has the inverted sign convention: for a
\* baseline b > 0 and a candidate c, the regression percentage the detector
\* records is the exact negation of the improvement percentage
\* analyze-performance computes for (b, c); a candidate larger than the
\* baseline gives a positive regression and a negative improvement.
Negated(fraction) == [num |-> 0 - fraction.num, den |-> fraction.den]
C22_InvertedSign ==
  /\ \A i \in DOMAIN lines :
       lines[i].baseline > 0 =>
         /\ lines[i].regression = Negated(Improvement(lines[i].baseline, lines[i].current))
         /\ lines[i].current > lines[i].baseline =>
              /\ lines[i].regression.num > 0
              /\ Improvement(lines[i].baseline, lines[i].current).num < 0
  /\ \A row \in table :
       row.baseline > 0 =>
         Negated(row.improvement) = calculate_regression(row.baseline, row.tuned)

\* C22 witness: a detection run that compared a candidate value larger
\* than its positive baseline value.
C22_Witness ==
  /\ mode = "detect"
  /\ \E i \in DOMAIN lines :
       /\ lines[i].baseline > 0 /\ lines[i].current > lines[i].baseline
       /\ lines[i].regression.num > 0

\* C23 (as claimed): a --save-baseline run exits 0 only if the baseline
\* file was written; a failed write ends the run with a non-zero exit code.
C23_SaveReportsWriteFailure ==
  mode = "save-baseline" => (exit_code = 0 => saved)

\* C24: after one run_detection regressions_found holds at most one entry
\* for each (metric type, percentile) pair present in both the baseline and
\* the current metrics, so at most 3 entries for each common metric type;
\* the regression of every entry is strictly greater than the threshold;
\* and the list is the one the same inputs give again.
CommonTypes == DOMAIN current_metrics \cap DOMAIN baseline.metrics
C24_RegressionsFound ==
  mode = "detect" =>
    /\ \A i \in DOMAIN regressions_found, j \in DOMAIN regressions_found :
         (regressions_found[i].metric = regressions_found[j].metric
            /\ regressions_found[i].percentile = regressions_found[j].percentile) => i = j
    /\ \A i \in DOMAIN regressions_found :
         LET e == regressions_found[i]
         IN /\ e.metric \in CommonTypes
            /\ e.percentile \in DOMAIN current_metrics[e.metric]
            /\ e.percentile \in DOMAIN baseline.metrics[e.metric]
            /\ e.regression.den > 0
            /\ e.regression.num > args.threshold * e.regression.den
    /\ Len(regressions_found) <= 3 * Cardinality(CommonTypes)
    /\ (baseline.loaded /\ baseline.keys # {} /\ DOMAIN current_metrics # {}) =>
         regressions_found
           = compare_metrics(baseline, current_metrics, args.threshold).regressions_found

\* C24 witness: a detection run that recorded two regressions of one
\* metric type.
C24_Witness ==
  /\ mode = "detect"
  /\ Len(regressions_found) >= 2
  /\ regressions_found[1].metric = regressions_found[2].metric

\* C27: the two modes of the regression detector do not interfere: a
\* detection run leaves every baseline file as it was, and a --save-baseline
\* run loads no baseline and compares nothing, so its regressions_found is
\* empty and, with current metrics found, it exits 0 even when those
\* metrics regress against the baseline it overwrites.
SaveRunIsolated ==
  mode = "save-baseline" =>
    /\ ~baseline.loaded
    /\ lines = << >>
    /\ regressions_found = << >>
    /\ DOMAIN current_metrics # {} => exit_code = 0
C27_ModesDoNotInterfere ==
  /\ []SaveRunIsolated
  /\ [][mode' = "detect" => files' = files]_vars

\* C27 witness: a --save-baseline run has replaced the baseline file, and
\* the metrics it stored regress against the baseline found before the
\* first run.
RegressAgainst(text) ==
  compare_metrics([loaded |-> TRUE, keys |-> text.keys, metrics |-> LoadMetrics(text.metrics)],
                  current_metrics, args.threshold).regressions_found # << >>
C27_Witness ==
  /\ mode = "save-baseline" /\ saved /\ exit_code = 0
  /\ files[DefaultBaselinePath].exists
  /\ files[DefaultBaselinePath].text.timestamp = "now"
  /\ LoadMetrics(files[DefaultBaselinePath].text.metrics) = current_metrics
  /\ RegressAgainst(OldBaselineA)
  /\ regressions_found = << >>

\* C25: the pod-readiness polling loops end: test_pod_scheduling issues at
\* most 12 status polls and test_vmi_connectivity at most 30; each returns
\* True only if a poll saw phase 'Running' (and, for the VMI test, the ping
\* succeeded); each returns False once the polls are used up without
\* 'Running' seen.
Polls == {i \in DOMAIN oc_calls : oc_calls[i].cmd = "get pod phase"}
SawRunning == \E i \in Polls : oc_calls[i].ok
PingSucceeded == \E i \in DOMAIN oc_calls : oc_calls[i].cmd = "exec ping" /\ oc_calls[i].ok
PollBudget == IF prog = "cluster-health-check" THEN PodPollBudget ELSE VmiPollBudget
C25_PollingEnds ==
  prog \in {"cluster-health-check", "vmi-network-tester"} =>
    /\ Cardinality(Polls) <= PollBudget
    /\ attempt <= PollBudget
    /\ returned = "True" => SawRunning
    /\ (returned = "True" /\ prog = "vmi-network-tester") => PingSucceeded
    /\ (Cardinality(Polls) = PollBudget /\ ~SawRunning) =>
         /\ returned # "True"
         /\ pc \in {"poll", "done"}
         /\ pc = "done" => returned = "False"

\* C25 witness: test_vmi_connectivity has returned False after 30 polls,
\* none of which saw 'Running'.
C25_Witness ==
  /\ prog = "vmi-network-tester" /\ pc = "done"
  /\ Cardinality(Polls) = VmiPollBudget /\ ~SawRunning
  /\ returned = "False"

\* C26 (as claimed): test pods are always cleaned up: when
\* test_pod_scheduling or test_vmi_connectivity ends after it created its
\* test pod, a delete of that pod was issued after the creation; and when
\* test_pod_scheduling ends, on any path, its temporary manifest file is
\* gone.
CreatedAt(i) == oc_calls[i].cmd \in {"apply", "run"} /\ oc_calls[i].ok
DeletedAfter(i) == \E j \in DOMAIN oc_calls : j > i /\ oc_calls[j].cmd = "delete pod"
TestPodDeleted ==
  (prog \in {"cluster-health-check", "vmi-network-tester"} /\ pc = "done") =>
    \A i \in DOMAIN oc_calls : CreatedAt(i) => DeletedAfter(i)
ManifestRemoved ==
  (prog = "cluster-health-check" /\ pc = "done") => ~files[TempManifest].exists
C26_TestPodsCleanedUp == TestPodDeleted /\ ManifestRemoved

\* ------------------------------------------- comprehensive validator claims
WorkshopDone == prog = "comprehensive-validator" /\ pc = "done" /\ raised = "none"
ResultOf(check) == validator.validation_results[check]
Module4Skipped ==
  /\ WorkshopDone
  /\ ResultOf("module3_baseline") /\ ResultOf("module5_vmi")
  /\ ResultOf("module5_network") /\ ResultOf("cluster_health")
  /\ ~ResultOf("module4_tuning")

\* C21: a run in which Module 4 tuning was not validated while the Module 3
\* baseline, the Module 5 VMI test, the Module 5 network test and the
\* cluster health all were, reports MOST VALIDATIONS PASSED and exits 0.
C21_SkippedTuningStillPasses ==
  Module4Skipped => info["summary"] = "MOST VALIDATIONS PASSED" /\ exit_code = 0

\* What such a run does instead: four of six, VALIDATION INCOMPLETE, exit 1.
C21_SkippedTuningFails ==
  Module4Skipped =>
    /\ Completed(validator.validation_results) = 4
    /\ info["summary"] = "VALIDATION INCOMPLETE"
    /\ exit_code = 1
C21_Reached == Module4Skipped

C28_FourOfSix ==
  /\ WorkshopDone
  /\ Completed(validator.validation_results) = 4
  /\ ResultOf("performance_improvement")
  /\ exit_code = 1

====
